---- MODULE Spec2Model ----
(***************************************************************************)
(* notification-kafka-lib:                                                 *)
(*  - NotificationProducer (kafka/producer): concurrent PublishMessage     *)
(*    calls, their send goroutines, and Close calls sharing one            *)
(*    sarama.SyncProducer behind np.mu / np.closed;                        *)
(*  - startup (initiator, config): Load against the secrets store, in both *)
(*    copies of package config, then NewNotificationProducer;              *)
(*  - the envelope (dto): NewNotificationMessage, its JSON form, and       *)
(*    UnmarshalPayload;                                                    *)
(*  - one PublishMessage call followed step by step (envelope, JSON,       *)
(*    headers, goroutine, lock, send), and the lookups on the VaultClient. *)
(***************************************************************************)
EXTENDS Naturals, Integers, Sequences, FiniteSets, TLC

(* ---------------------------- bounds ----------------------------------- *)
\* number of calls the owning process issues on the one producer, each of
\* them a PublishMessage call or a Close call, from concurrent goroutines
MaxCalls == 2

Calls == 1..MaxCalls
Closers == 1..MaxCalls

(* ------------------------ program constants ---------------------------- *)
\* faulty variant of DoneCap: done := make(chan error)
DoneCapUnbuffered == Len(<<>>)
\* done := make(chan error, 1)
DoneCap == 1

(* --------------------------- error values ------------------------------ *)
\* an error is a sequence of message parts; fmt.Errorf("...: %w", err)
\* prepends its own text to the wrapped error
None == <<"-">>
Nil == <<>>
ErrClosed == <<"producer is closed">>
ErrBroker == <<"broker error">>
ErrMarshal == <<"json: unsupported type">>
ErrTime == <<"json: error calling MarshalJSON for type time.Time">>
ErrCanceled == <<"context canceled">>
ErrTimeout == <<"timeout while waiting for message delivery">>
WrapCreate(e) == <<"failed to create notification message">> \o e
WrapMarshal(e) == <<"failed to marshal message">> \o e
WrapProduce(e) == <<"failed to produce message">> \o e

(* --------------------------- lock holders ------------------------------ *)
NoHolder == <<"none", 0>>
SendTask(p) == <<"send", p>>
CloseCall(c) == <<"close", c>>

VARIABLES
    closed,       \* np.closed
    mu,           \* holder of np.mu
    connCloses,   \* invocations of np.producer.Close()
    connSends,    \* connSends[p]: invocations of np.producer.SendMessage by call p
    sentOnClosed, \* some SendMessage was invoked while np.closed was true
    pc,           \* position of each PublishMessage call
    ctx,          \* state of the caller's context of each call
    preCanceled,  \* the context was already canceled when the call was made
    afterClose,   \* the call was made after some Close call had returned
    timer,        \* the time.After(30s) timer of each call
    done,         \* the result channel of each call
    recv,         \* value the select received from done
    result,       \* value returned by each PublishMessage call
    tpc,          \* position of each call's send goroutine
    err,          \* result of safeSendMessage in the goroutine
    writes,       \* number of values the goroutine wrote to done
    cpc,          \* position of each Close call
    touched,      \* touched[c]: Close call c invoked np.producer.Close()
    closeLog      \* what Close logged about np.producer.Close(): its error or its success

VARIABLES
    variant,       \* which copy of package config the build holds
    env,           \* the environment variables of the process
    spc,           \* position of InitializeNotificationServices
    clientsBuilt,  \* invocations of api.NewClient
    storeReads,    \* invocations of client.Logical().Read
    response,      \* what the store answered to the read
    secretData,    \* VaultClient.secretData
    cfg,           \* the configuration Load returned
    loadErr,       \* the error Load returned
    brokers,       \* the address list handed to sarama.NewSyncProducer
    sasl,          \* kafkaConfig.Net.SASL handed to sarama.NewSyncProducer
    syncProducers, \* invocations of sarama.NewSyncProducer
    ctorErr,       \* the error NewNotificationProducer returned
    services,      \* the *NotificationServices InitializeNotificationServices returned
    initErr,       \* the error InitializeNotificationServices returned
    looked         \* the results of the GetSecret calls made on the VaultClient after Load

VARIABLES
    rpc,           \* position of the envelope round trip
    payload,       \* the payload handed to NewNotificationMessage
    message,       \* the NotificationMessage built from it
    wire,          \* json.Marshal of the message
    received,      \* the NotificationMessage decoded from wire
    unmarshalled   \* the value UnmarshalPayload filled in

VARIABLES
    ppc,             \* position of the one publish call followed step by step
    call,            \* the operation called and its arguments
    notificationMsg, \* the envelope dto.NewNotificationMessage returned
    messageBytes,    \* json.Marshal(notificationMsg)
    kafkaMsg,        \* the sarama.ProducerMessage built by PublishMessage
    handed,          \* the messages handed to np.producer.SendMessage
    steps,           \* what the call and its send goroutine did, in order
    pubErr           \* the error the call returned

npVars == <<closed, mu, connCloses, connSends, sentOnClosed, pc, ctx, preCanceled,
            afterClose, timer, done, recv, result, tpc, err, writes, cpc, touched,
            closeLog>>
bootVars == <<variant, env, spc, clientsBuilt, storeReads, response, secretData, cfg,
              loadErr, brokers, sasl, syncProducers, ctorErr, services, initErr, looked>>
rtVars == <<rpc, payload, message, wire, received, unmarshalled>>
pubVars == <<ppc, call, notificationMsg, messageBytes, kafkaMsg, handed, steps, pubErr>>
vars == <<npVars, bootVars, rtVars, pubVars>>

prodVars == <<closed, mu, connCloses, connSends, sentOnClosed>>
callVars == <<pc, ctx, preCanceled, afterClose, timer, done, recv, result>>
taskVars == <<tpc, err, writes>>
closeVars == <<cpc, touched, closeLog>>

(* ------------------------------ strings -------------------------------- *)
\* a Go string is the sequence of its characters
WhiteSpace == {" ", "\t", "\n", "\r"}

RECURSIVE TrimLeft(_)
TrimLeft(s) == IF s # <<>> /\ Head(s) \in WhiteSpace THEN TrimLeft(Tail(s)) ELSE s

RECURSIVE TrimRight(_)
TrimRight(s) ==
    IF s # <<>> /\ s[Len(s)] \in WhiteSpace
      THEN TrimRight(SubSeq(s, 1, Len(s) - 1))
      ELSE s

\* faulty variant of TrimSpace: only leading white space is removed
TrimSpaceLeading(s) == TrimLeft(s)

\* strings.TrimSpace
TrimSpace(s) == TrimRight(TrimLeft(s))

\* strings.Split(s, sep) for a one-character separator
RECURSIVE Split(_, _)
Split(s, sep) ==
    LET idx == {i \in 1..Len(s) : s[i] = sep}
    IN  IF idx = {}
          THEN <<s>>
          ELSE LET i == CHOOSE i \in idx : \A j \in idx : i <= j
               IN  <<SubSeq(s, 1, i - 1)>> \o Split(SubSeq(s, i + 1, Len(s)), sep)

\* strconv.ParseBool: the value and whether the string was accepted
ParseBool(s) ==
    IF s \in {<<"1">>, <<"t">>, <<"T">>, <<"T", "R", "U", "E">>, <<"t", "r", "u", "e">>, <<"T", "r", "u", "e">>}
      THEN [ok |-> TRUE, v |-> TRUE]
      ELSE IF s \in {<<"0">>, <<"f">>, <<"F">>, <<"F", "A", "L", "S", "E">>, <<"f", "a", "l", "s", "e">>, <<"F", "a", "l", "s", "e">>}
             THEN [ok |-> TRUE, v |-> FALSE]
             ELSE [ok |-> FALSE, v |-> FALSE]

\* strconv.FormatBool
FormatBool(b) == IF b THEN <<"t", "r", "u", "e">> ELSE <<"f", "a", "l", "s", "e">>

Digits == <<"0", "1", "2", "3", "4", "5", "6", "7", "8", "9">>
IsDigit(c) == \E i \in DOMAIN Digits : Digits[i] = c
DigitValue(c) == (CHOOSE i \in DOMAIN Digits : Digits[i] = c) - 1

RECURSIVE Decimal(_)
Decimal(ds) ==
    IF ds = <<>> THEN 0
    ELSE Decimal(SubSeq(ds, 1, Len(ds) - 1)) * 10 + DigitValue(ds[Len(ds)])

\* strconv.Atoi: an optional sign and at least one decimal digit (the
\* strings of the model are too short to overflow an int)
Atoi(s) ==
    LET signed == s # <<>> /\ Head(s) \in {"+", "-"}
        body == IF signed THEN Tail(s) ELSE s
        good == body # <<>> /\ \A i \in DOMAIN body : IsDigit(body[i])
    IN  [ok |-> good,
         v |-> IF ~good THEN 0
               ELSE IF Head(s) = "-" THEN 0 - Decimal(body) ELSE Decimal(body)]

(* --------------------------- configuration ----------------------------- *)
\* the two copies of package config in the repository
ConfigGo == "config/config.go"
ConfigKafkaOnly == "part_001"
Variants == {ConfigGo, ConfigKafkaOnly}

\* the struct literal of Load: field, secret key, accessor and default
LoadFieldsConfigGo == <<
    [field |-> "MailjetAPIKey", key |-> "MAILJET_API_KEY", kind |-> "string",
     def |-> <<"8", "f", "f", "e", "2", "a", "d", "1", "6", "0", "6", "1", "f", "0", "6", "a", "a", "2", "b", "e", "7", "e", "9", "8", "e", "9", "4", "6", "4", "7", "d", "8">>],
    [field |-> "MailjetSecret", key |-> "MAILJET_SECRET_KEY", kind |-> "string",
     def |-> <<"b", "5", "0", "7", "c", "6", "e", "6", "1", "a", "b", "1", "9", "3", "f", "9", "8", "9", "1", "0", "5", "8", "9", "7", "6", "7", "7", "7", "0", "f", "d", "9">>],
    [field |-> "MailjetSenderEmail", key |-> "MAILJET_SENDER_EMAIL", kind |-> "string",
     def |-> <<"n", "o", "r", "e", "p", "l", "y", "@", "d", "u", "b", "e", "a", "l", "e", ".", "c", "o", "m">>],
    [field |-> "MailjetSenderName", key |-> "MAILJET_SENDER_NAME", kind |-> "string",
     def |-> <<"C", "B", "E">>],
    [field |-> "Brokers", key |-> "KAFKA_BROKERS", kind |-> "string", def |-> <<>>],
    [field |-> "EmailTopic", key |-> "KAFKA_EMAIL_TOPIC", kind |-> "string",
     def |-> <<"e", "m", "a", "i", "l", "-", "n", "o", "t", "i", "f", "i", "c", "a", "t", "i", "o", "n", "s">>],
    [field |-> "SmsTopic", key |-> "KAFKA_SMS_TOPIC", kind |-> "string",
     def |-> <<"s", "m", "s", "-", "n", "o", "t", "i", "f", "i", "c", "a", "t", "i", "o", "n", "s">>],
    [field |-> "FeedbackTopic", key |-> "KAFKA_FEEDBACK_TOPIC", kind |-> "string",
     def |-> <<"f", "e", "e", "d", "b", "a", "c", "k", "-", "e", "v", "e", "n", "t", "s">>],
    [field |-> "ConsumerGroup", key |-> "KAFKA_CONSUMER_GROUP", kind |-> "string",
     def |-> <<"n", "o", "t", "i", "f", "i", "c", "a", "t", "i", "o", "n", "-", "s", "e", "r", "v", "i", "c", "e">>],
    [field |-> "AutoOffsetReset", key |-> "KAFKA_AUTO_OFFSET_RESET", kind |-> "string",
     def |-> <<"e", "a", "r", "l", "i", "e", "s", "t">>],
    [field |-> "EnableAutoCommit", key |-> "KAFKA_ENABLE_AUTO_COMMIT", kind |-> "bool",
     def |-> TRUE],
    [field |-> "SessionTimeoutMs", key |-> "KAFKA_SESSION_TIMEOUT_MS", kind |-> "int",
     def |-> 10000],
    [field |-> "SASLEnabled", key |-> "KAFKA_SASL_ENABLED", kind |-> "bool",
     def |-> FALSE],
    [field |-> "SASLUsername", key |-> "KAFKA_SASL_USERNAME", kind |-> "string",
     def |-> <<>>],
    [field |-> "SASLPassword", key |-> "KAFKA_SASL_PASSWORD", kind |-> "string",
     def |-> <<>>],
    [field |-> "SASLMechanism", key |-> "KAFKA_SASL_MECHANISM", kind |-> "string",
     def |-> <<"P", "L", "A", "I", "N">>] >>

LoadFieldsKafkaOnly == <<
    [field |-> "Brokers", key |-> "KAFKA_BROKERS", kind |-> "string", def |-> <<>>],
    [field |-> "SMSTopic", key |-> "KAFKA_SMS_TOPIC", kind |-> "string",
     def |-> <<"s", "m", "s", "-", "n", "o", "t", "i", "f", "i", "c", "a", "t", "i", "o", "n", "s">>],
    [field |-> "EmailTopic", key |-> "KAFKA_EMAIL_TOPIC", kind |-> "string",
     def |-> <<"e", "m", "a", "i", "l", "-", "n", "o", "t", "i", "f", "i", "c", "a", "t", "i", "o", "n", "s">>],
    [field |-> "InAppTopic", key |-> "KAFKA_INAPP_TOPIC", kind |-> "string",
     def |-> <<"i", "n", "a", "p", "p", "-", "n", "o", "t", "i", "f", "i", "c", "a", "t", "i", "o", "n", "s">>],
    [field |-> "PushTopic", key |-> "KAFKA_PUSH_TOPIC", kind |-> "string",
     def |-> <<"p", "u", "s", "h", "-", "n", "o", "t", "i", "f", "i", "c", "a", "t", "i", "o", "n", "s">>],
    [field |-> "ConsumerGroup", key |-> "KAFKA_CONSUMER_GROUP", kind |-> "string",
     def |-> <<"n", "o", "t", "i", "f", "i", "c", "a", "t", "i", "o", "n", "-", "s", "e", "r", "v", "i", "c", "e">>],
    [field |-> "SASLEnabled", key |-> "KAFKA_SASL_ENABLED", kind |-> "bool",
     def |-> FALSE],
    [field |-> "SASLUsername", key |-> "KAFKA_SASL_USERNAME", kind |-> "string",
     def |-> <<>>],
    [field |-> "SASLPassword", key |-> "KAFKA_SASL_PASSWORD", kind |-> "string",
     def |-> <<>>],
    [field |-> "SASLMechanism", key |-> "KAFKA_SASL_MECHANISM", kind |-> "string",
     def |-> <<"P", "L", "A", "I", "N">>],
    [field |-> "AutoOffsetReset", key |-> "KAFKA_AUTO_OFFSET_RESET", kind |-> "string",
     def |-> <<"e", "a", "r", "l", "i", "e", "s", "t">>],
    [field |-> "EnableAutoCommit", key |-> "KAFKA_ENABLE_AUTO_COMMIT", kind |-> "bool",
     def |-> TRUE],
    [field |-> "SessionTimeoutMs", key |-> "KAFKA_SESSION_TIMEOUT_MS", kind |-> "int",
     def |-> 10000] >>

LoadFields(v) == IF v = ConfigGo THEN LoadFieldsConfigGo ELSE LoadFieldsKafkaOnly
FieldNames(v) == {LoadFields(v)[i].field : i \in DOMAIN LoadFields(v)}
Row(v, f) == LoadFields(v)[CHOOSE i \in DOMAIN LoadFields(v) : LoadFields(v)[i].field = f]

\* the environment variables NewVaultClient reads
BootNames == {"VAULT_ADDR", "VAULT_TOKEN", "VAULT_PATH"}

\* error values of Load
ErrNoAddr == <<"VAULT_ADDR environment variable is not set">>
ErrNoToken == <<"VAULT_TOKEN environment variable is not set">>
ErrNoPath == <<"VAULT_PATH environment variable is not set">>
ErrVaultAPI == <<"vault api error">>
ErrVaultRead == <<"vault read error">>
ErrNoSecrets == <<"no secrets found at path">>
ErrSecretFormat == <<"invalid secret data format at path">>

\* a secret of the store: a JSON string, or a value of another JSON type
StringValue(s) == [t |-> "string", s |-> s]
OtherValue == [t |-> "other", s |-> <<>>]

\* what Logical().Read returns: an error, no secret, a secret without Data,
\* Data without a "data" mapping, or Data whose "data" is a mapping
NoMap == <<>>
ReadError == [kind |-> "error", data |-> NoMap]
NoSecret == [kind |-> "nil", data |-> NoMap]
NoData == [kind |-> "nodata", data |-> NoMap]
FlatData == [kind |-> "flat", data |-> NoMap]
KV(m) == [kind |-> "kv", data |-> m]
NoResponse == [kind |-> "unread", data |-> NoMap]

\* fetchSecrets: the error it returns and the secretData it caches
fetchSecrets(v, rsp) ==
    IF rsp.kind = "error"
      THEN [err |-> IF v = ConfigGo THEN ErrVaultRead
                    ELSE <<"failed to read secrets from Vault path">> \o ErrVaultRead,
            secretData |-> NoMap]
    ELSE IF rsp.kind \in {"nil", "nodata"}
      THEN [err |-> ErrNoSecrets, secretData |-> NoMap]
    ELSE IF rsp.kind = "kv"
      THEN [err |-> Nil, secretData |-> rsp.data]
    ELSE IF v = ConfigGo
      THEN [err |-> Nil, secretData |-> NoMap]
      ELSE [err |-> ErrSecretFormat, secretData |-> NoMap]

\* getEnv
getEnv(e, name) == e[name]

\* NewVaultClient: its error, whether api.NewClient was called, the number
\* of reads of the store and the cache of the client it returns
NewVaultClient(v, e, clientOK, rsp) ==
    LET failed(x) == [err |-> x, built |-> 0, reads |-> 0, secretData |-> NoMap]
        fetched == fetchSecrets(v, rsp)
    IN  IF v = ConfigGo /\ getEnv(e, "VAULT_ADDR") = <<>> THEN failed(ErrNoAddr)
        ELSE IF v = ConfigGo /\ getEnv(e, "VAULT_TOKEN") = <<>> THEN failed(ErrNoToken)
        ELSE IF v = ConfigGo /\ getEnv(e, "VAULT_PATH") = <<>> THEN failed(ErrNoPath)
        ELSE IF ~clientOK
          THEN [err |-> (IF v = ConfigGo THEN <<"failed to initialize Vault client">>
                         ELSE <<"failed to create Vault client">>) \o ErrVaultAPI,
                built |-> 1, reads |-> 0, secretData |-> NoMap]
        ELSE IF fetched.err # Nil
          THEN [err |-> (IF v = ConfigGo THEN <<"failed to fetch secrets from Vault">>
                         ELSE <<"failed to fetch secrets">>) \o fetched.err,
                built |-> 1, reads |-> 1, secretData |-> NoMap]
        ELSE [err |-> Nil, built |-> 1, reads |-> 1, secretData |-> fetched.secretData]

\* GetSecret: the value when the cache holds a string for the key, else ""
GetSecret(sd, key) ==
    IF key \in DOMAIN sd /\ sd[key].t = "string" THEN sd[key].s ELSE <<>>

\* faulty variant of getConfigValue: the `vaultValue != ""` test is missing
getConfigValueAnyValue(sd, key, def) == GetSecret(sd, key)

getConfigValue(sd, key, def) ==
    IF GetSecret(sd, key) # <<>> THEN GetSecret(sd, key) ELSE def

getConfigBool(sd, key, def) ==
    IF GetSecret(sd, key) # <<>> /\ ParseBool(GetSecret(sd, key)).ok
      THEN ParseBool(GetSecret(sd, key)).v
      ELSE def

\* faulty variant of getConfigInt: the error of strconv.Atoi is not checked
getConfigIntUnchecked(sd, key, def) ==
    IF GetSecret(sd, key) # <<>>
      THEN Atoi(GetSecret(sd, key)).v
      ELSE def

getConfigInt(sd, key, def) ==
    IF GetSecret(sd, key) # <<>> /\ Atoi(GetSecret(sd, key)).ok
      THEN Atoi(GetSecret(sd, key)).v
      ELSE def

\* the configuration Load builds from the client's cache
LoadConfig(v, sd) ==
    [f \in FieldNames(v) |->
        LET r == Row(v, f)
        IN  CASE r.kind = "string" -> getConfigValue(sd, r.key, r.def)
              [] r.kind = "bool" -> getConfigBool(sd, r.key, r.def)
              [] r.kind = "int" -> getConfigInt(sd, r.key, r.def)]

(* ------------------------- startup inputs ------------------------------ *)
\* number of keys, other than KAFKA_BROKERS, the "data" mapping of the
\* store's response holds
MaxSecrets == 1

\* length of a broker string handed to NewNotificationProducer directly
MaxBrokerLen == 3

\* the strings a secret may hold, by the accessor that reads it
StringInputs == {<<>>, <<"a", ",", " ", "b">>}

BoolInputs ==
    {<<>>, <<"1">>, <<"t">>, <<"T">>, <<"T", "R", "U", "E">>, <<"t", "r", "u", "e">>, <<"T", "r", "u", "e">>,
     <<"0">>, <<"f">>, <<"F">>, <<"F", "A", "L", "S", "E">>, <<"f", "a", "l", "s", "e">>, <<"F", "a", "l", "s", "e">>,
     <<"y", "e", "s">>, <<"t", "R", "u", "E">>}

IntInputs == {<<>>, <<"0">>, <<"2", "5">>, <<"-", "7">>, <<"+", "3">>, <<"1", "x">>, <<"-">>}

InputsOfKind(k) ==
    CASE k = "string" -> StringInputs
      [] k = "bool" -> BoolInputs
      [] k = "int" -> IntInputs

SecretValues(k) == {OtherValue} \cup {StringValue(s) : s \in InputsOfKind(k)}

\* m with key k set to x
WithSecret(m, k, x) == [y \in DOMAIN m \cup {k} |-> IF y = k THEN x ELSE m[y]]

\* the mappings over the keys Load looks up from its i-th on that hold at
\* most n keys other than KAFKA_BROKERS
RECURSIVE SecretMapsFrom(_, _, _)
SecretMapsFrom(v, i, n) ==
    IF i > Len(LoadFields(v))
      THEN {NoMap}
    ELSE IF LoadFields(v)[i].key = "KAFKA_BROKERS"
      THEN SecretMapsFrom(v, i + 1, n)
             \cup {WithSecret(m, LoadFields(v)[i].key, x) :
                      m \in SecretMapsFrom(v, i + 1, n),
                      x \in SecretValues(LoadFields(v)[i].kind)}
    ELSE IF n = 0
      THEN SecretMapsFrom(v, i + 1, n)
      ELSE SecretMapsFrom(v, i + 1, n)
             \cup {WithSecret(m, LoadFields(v)[i].key, x) :
                      m \in SecretMapsFrom(v, i + 1, n - 1),
                      x \in SecretValues(LoadFields(v)[i].kind)}

SecretMapsConfigGo == SecretMapsFrom(ConfigGo, 1, MaxSecrets)

SecretMapsKafkaOnly == SecretMapsFrom(ConfigKafkaOnly, 1, MaxSecrets)

Responses(v) ==
    {ReadError, NoSecret, NoData, FlatData}
        \cup {KV(m) : m \in (IF v = ConfigGo THEN SecretMapsConfigGo ELSE SecretMapsKafkaOnly)}

\* the value the environment holds for a configuration key when it holds one
EnvValue(r) ==
    CASE r.kind = "string" -> <<"e", "n", "v">>
      [] r.kind = "bool" -> FormatBool(~r.def)
      [] r.kind = "int" -> <<"7">>

\* the environments of the process: each of the three bootstrap variables
\* set or not, and the configuration keys all set or all unset
Environments(v) ==
    {[n \in BootNames \cup {LoadFields(v)[i].key : i \in DOMAIN LoadFields(v)} |->
        IF n \in BootNames THEN b[n]
        ELSE IF keysSet
          THEN EnvValue(LoadFields(v)[CHOOSE i \in DOMAIN LoadFields(v) :
                                          LoadFields(v)[i].key = n])
          ELSE <<>>] :
     b \in [BootNames -> {<<>>, <<"x">>}], keysSet \in BOOLEAN}

\* the broker strings of at most MaxBrokerLen characters, and the example
\* of the producer's documentation
BrokerChars == {"b", ",", " "}
BrokerInputs ==
    {<<"b", "1", ":", "9", "0", "9", "2", ",", " ", "b", "2", ":", "9", "0", "9", "2">>}
        \cup UNION {[1..n -> BrokerChars] : n \in 0..MaxBrokerLen}

(* ------------------------------ startup -------------------------------- *)
NoConfig == <<>>
NoBrokers == <<>>
ErrNoBrokers == <<"Kafka brokers not configured">>
ErrNoProducer == <<"failed to create Kafka producer">> \o ErrBroker

\* InitializeNotificationServices returned nil for the services
NoServices == <<>>

\* the fields of ConfigParsed.Email; every other field is one of ConfigParsed.Kafka
EmailFields == {"MailjetAPIKey", "MailjetSecret", "MailjetSenderEmail", "MailjetSenderName"}

\* cfg.Kafka
Kafka(c) == [f \in DOMAIN c \ EmailFields |-> c[f]]

\* sarama.NewConfig(): SASL is disabled and carries no credentials
NoSASL == [Enable |-> FALSE, User |-> <<>>, Password |-> <<>>, Mechanism |-> <<>>]

\* faulty variant of Load: InitializeNotificationServices logs the error of
\* config.Load and goes on with the defaults
LoadErrorIgnored ==
    /\ spc = "start"
    /\ \E clientOK \in BOOLEAN, rsp \in Responses(variant) :
          LET r == NewVaultClient(variant, env, clientOK, rsp)
          IN  /\ clientsBuilt' = r.built
              /\ storeReads' = r.reads
              /\ response' = (IF r.reads = 1 THEN rsp ELSE NoResponse)
              /\ secretData' = r.secretData
              /\ spc' = "loaded"
              /\ loadErr' = (IF r.err = Nil \/ variant = ConfigGo THEN r.err
                             ELSE <<"failed to initialize Vault client">> \o r.err)
              /\ cfg' = LoadConfig(variant, r.secretData)
              /\ UNCHANGED <<services, initErr>>
    /\ UNCHANGED <<variant, env, brokers, sasl, syncProducers, ctorErr, looked, npVars, rtVars, pubVars>>

\* config.Load() as InitializeNotificationServices calls it: on an error the
\* initializer returns (nil, err) at once
Load ==
    /\ spc = "start"
    /\ \E clientOK \in BOOLEAN, rsp \in Responses(variant) :
          LET r == NewVaultClient(variant, env, clientOK, rsp)
          IN  /\ clientsBuilt' = r.built
              /\ storeReads' = r.reads
              /\ response' = (IF r.reads = 1 THEN rsp ELSE NoResponse)
              /\ secretData' = r.secretData
              /\ IF r.err # Nil
                   THEN /\ spc' = "loadFailed"
                        /\ loadErr' = (IF variant = ConfigGo THEN r.err
                                       ELSE <<"failed to initialize Vault client">> \o r.err)
                        /\ cfg' = NoConfig
                        /\ initErr' = loadErr'
                        /\ UNCHANGED services
                   ELSE /\ spc' = "loaded"
                        /\ loadErr' = Nil
                        /\ cfg' = LoadConfig(variant, r.secretData)
                        /\ UNCHANGED <<services, initErr>>
    /\ UNCHANGED <<variant, env, brokers, sasl, syncProducers, ctorErr, looked, npVars, rtVars, pubVars>>

\* the broker list: the comma-split of the string, each element trimmed
BrokerList(s) ==
    LET parts == Split(s, ",")
    IN  [i \in DOMAIN parts |-> TrimSpace(parts[i])]

\* faulty variant of SASLConfig: the credentials are attached whatever the flag
SASLConfigAlways(c) ==
    [Enable |-> c.SASLEnabled, User |-> c.SASLUsername,
     Password |-> c.SASLPassword, Mechanism |-> c.SASLMechanism]

\* kafkaConfig.Net.SASL as NewNotificationProducer sets it
SASLConfig(c) ==
    IF c.SASLEnabled
      THEN [Enable |-> TRUE, User |-> c.SASLUsername,
            Password |-> c.SASLPassword, Mechanism |-> c.SASLMechanism]
      ELSE NoSASL

\* NewNotificationProducer(cfg.Kafka, logger) as InitializeNotificationServices
\* calls it: on an error the initializer returns (nil, err), otherwise the
\* services made of the new producer and of cfg
NewNotificationProducer ==
    /\ spc = "loaded"
    /\ IF cfg.Brokers = <<>>
         THEN /\ spc' = "ctorFailed"
              /\ ctorErr' = ErrNoBrokers
              /\ initErr' = ErrNoBrokers
              /\ UNCHANGED <<brokers, sasl, syncProducers, services>>
         ELSE /\ brokers' = BrokerList(cfg.Brokers)
              /\ sasl' = SASLConfig(cfg)
              /\ syncProducers' = syncProducers + 1
              /\ \E ok \in BOOLEAN :
                    /\ spc' = (IF ok THEN "constructed" ELSE "ctorFailed")
                    /\ ctorErr' = (IF ok THEN Nil ELSE ErrNoProducer)
                    /\ initErr' = (IF ok THEN Nil ELSE ErrNoProducer)
                    /\ services' = (IF ok THEN [Producer |-> [closed |-> FALSE,
                                                              config |-> Kafka(cfg)],
                                                Config |-> cfg]
                                    ELSE services)
    /\ UNCHANGED <<variant, env, clientsBuilt, storeReads, response, secretData, cfg,
                   loadErr, looked, npVars, rtVars, pubVars>>

\* the keys looked up on the VaultClient once it is built: two that Load
\* asks for, and one that it never asks for
LookupKeys == {"KAFKA_SMS_TOPIC", "KAFKA_SASL_ENABLED", "NO_SUCH_KEY"}

\* faulty variant of GetSecretCall: a lookup removes the key from the cache
GetSecretCallEvicts(key) ==
    /\ spc = "loaded"
    /\ looked' = looked \cup {[key |-> key, value |-> GetSecret(secretData, key)]}
    /\ secretData' = [k \in DOMAIN secretData \ {key} |-> secretData[k]]
    /\ UNCHANGED <<variant, env, spc, clientsBuilt, storeReads, response, cfg, loadErr,
                   brokers, sasl, syncProducers, ctorErr, services, initErr,
                   npVars, rtVars, pubVars>>

\* vaultClient.GetSecret(key) on the client NewVaultClient returned: the cache
\* is read, nothing is written and the store is not asked
GetSecretCall(key) ==
    /\ spc = "loaded"
    /\ looked' = looked \cup {[key |-> key, value |-> GetSecret(secretData, key)]}
    /\ UNCHANGED <<variant, env, spc, clientsBuilt, storeReads, response, secretData, cfg,
                   loadErr, brokers, sasl, syncProducers, ctorErr, services, initErr,
                   npVars, rtVars, pubVars>>

(* ------------------------------ envelope ------------------------------- *)
\* number of entries of a payload's Metadata map
MaxMetadata == 1

\* the keys of a Metadata map: the i-th of MaxMetadata distinct strings
MetaKeys == 1..MaxMetadata

\* a value held in an interface{}: its dynamic type and its value
GoString(s) == [kind |-> "string", val |-> s]
GoInt(n) == [kind |-> "int", val |-> n]
GoFloat(n) == [kind |-> "float64", val |-> n]
GoBool(b) == [kind |-> "bool", val |-> b]
GoNil == [kind |-> "nil", val |-> <<>>]
GoFunc == [kind |-> "func", val |-> <<>>]

\* a map[string]interface{}: nil, or a mapping that may be empty
NilMap == [isNil |-> TRUE, m |-> NoMap]
MapOf(f) == [isNil |-> FALSE, m |-> f]

\* a JSON text, as the value it denotes
JString(s) == [json |-> "string", val |-> s]
JNumber(n) == [json |-> "number", val |-> n]
JBool(b) == [json |-> "bool", val |-> b]
JNull == [json |-> "null", val |-> <<>>]
JObject(f) == [json |-> "object", val |-> f]

\* json.Marshal of an interface{} value: whether it is supported, and its text
MarshalValue(x) ==
    CASE x.kind = "string" -> [ok |-> TRUE, j |-> JString(x.val)]
      [] x.kind = "int" -> [ok |-> TRUE, j |-> JNumber(x.val)]
      [] x.kind = "float64" -> [ok |-> TRUE, j |-> JNumber(x.val)]
      [] x.kind = "bool" -> [ok |-> TRUE, j |-> JBool(x.val)]
      [] x.kind = "nil" -> [ok |-> TRUE, j |-> JNull]
      [] x.kind = "func" -> [ok |-> FALSE, j |-> JNull]

\* faulty variant of UnmarshalValue: a JSON number is decoded as an int
UnmarshalValueInt(j) ==
    CASE j.json = "string" -> GoString(j.val)
      [] j.json = "number" -> GoInt(j.val)
      [] j.json = "bool" -> GoBool(j.val)
      [] j.json = "null" -> GoNil

\* json.Unmarshal into an interface{}: a JSON number becomes a float64
UnmarshalValue(j) ==
    CASE j.json = "string" -> GoString(j.val)
      [] j.json = "number" -> GoFloat(j.val)
      [] j.json = "bool" -> GoBool(j.val)
      [] j.json = "null" -> GoNil

\* json.Marshal of a map[string]interface{}
MarshalMap(md) ==
    [ok |-> \A k \in DOMAIN md.m : MarshalValue(md.m[k]).ok,
     j |-> IF md.isNil THEN JNull
           ELSE JObject([k \in DOMAIN md.m |-> MarshalValue(md.m[k]).j])]

\* json.Unmarshal into a map[string]interface{}
UnmarshalMap(j) ==
    IF j.json = "null" THEN NilMap
    ELSE MapOf([k \in DOMAIN j.val |-> UnmarshalValue(j.val[k])])

\* json.Marshal of an SMSKafkaMessage: priority and metadata are omitempty
MarshalPayload(p) ==
    LET names == {"recipient", "message_body"}
                   \cup (IF p.Priority # 0 THEN {"priority"} ELSE {})
                   \cup (IF DOMAIN p.Metadata.m # {} THEN {"metadata"} ELSE {})
    IN  [ok |-> MarshalMap(p.Metadata).ok,
         j |-> JObject([n \in names |->
                   CASE n = "recipient" -> JString(p.Recipient)
                     [] n = "message_body" -> JString(p.MessageBody)
                     [] n = "priority" -> JNumber(p.Priority)
                     [] n = "metadata" -> MarshalMap(p.Metadata).j])]

\* json.Unmarshal of a JSON object into a new SMSKafkaMessage
UnmarshalSMS(j) ==
    [Recipient |-> IF "recipient" \in DOMAIN j.val THEN j.val.recipient.val ELSE <<>>,
     MessageBody |-> IF "message_body" \in DOMAIN j.val THEN j.val.message_body.val ELSE <<>>,
     Priority |-> IF "priority" \in DOMAIN j.val THEN j.val.priority.val ELSE 0,
     Metadata |-> IF "metadata" \in DOMAIN j.val THEN UnmarshalMap(j.val.metadata)
                  ELSE NilMap]

\* time.Now(): a wall clock reading with a monotonic clock reading
Now == [wall |-> <<"t">>, mono |-> TRUE]

\* json.Marshal of a NotificationMessage: headers is omitempty, created_at
\* is the wall clock reading as text
MarshalMessage(msg) ==
    LET names == {"id", "type", "payload", "created_at"}
                   \cup (IF DOMAIN msg.Headers.m # {} THEN {"headers"} ELSE {})
    IN  JObject([n \in names |->
            CASE n = "id" -> JString(msg.ID)
              [] n = "type" -> JString(msg.Type)
              [] n = "payload" -> msg.Payload
              [] n = "created_at" -> JString(msg.CreatedAt.wall)
              [] n = "headers" -> MarshalMap(msg.Headers).j])

\* json.Unmarshal of a JSON object into a new NotificationMessage
UnmarshalMessage(j) ==
    [ID |-> j.val.id.val,
     Type |-> j.val.type.val,
     Payload |-> j.val.payload,
     CreatedAt |-> [wall |-> j.val.created_at.val, mono |-> FALSE],
     Headers |-> IF "headers" \in DOMAIN j.val THEN UnmarshalMap(j.val.headers)
                 ELSE NilMap]

\* the payloads, ids and kinds of the model
MetadataInputs ==
    {NilMap} \cup
    UNION {{MapOf(f) : f \in [D -> {GoString(<<>>), GoString(<<"s">>), GoInt(1), GoFloat(1),
                                   GoBool(TRUE), GoNil, GoFunc}]} :
           D \in SUBSET MetaKeys}

PayloadInputs ==
    {[Recipient |-> r, MessageBody |-> <<"m">>, Priority |-> n, Metadata |-> md] :
     r \in {<<>>, <<"r">>}, n \in {0, 2}, md \in MetadataInputs}

IdInputs == {<<>>, <<"i", "d">>}

TypeInputs == {<<"s", "m", "s">>, <<"e", "m", "a", "i", "l">>}

\* dto.NewNotificationMessage(id, msgType, payload)
NewNotificationMessage ==
    /\ rpc = "idle"
    /\ \E id \in IdInputs, msgType \in TypeInputs, p \in PayloadInputs :
          /\ payload' = p
          /\ IF MarshalPayload(p).ok
               THEN /\ message' = [ID |-> id, Type |-> msgType,
                                   Payload |-> MarshalPayload(p).j,
                                   CreatedAt |-> Now, Headers |-> MapOf(NoMap)]
                    /\ rpc' = "built"
               ELSE /\ message' = <<>>
                    /\ rpc' = "failed"
    /\ UNCHANGED <<wire, received, unmarshalled, npVars, bootVars, pubVars>>

\* json.Marshal(notificationMsg), as PublishMessage does
SerializeMessage ==
    /\ rpc = "built"
    /\ wire' = MarshalMessage(message)
    /\ rpc' = "serialized"
    /\ UNCHANGED <<payload, message, received, unmarshalled, npVars, bootVars, pubVars>>

\* a consumer's json.Unmarshal of the record value into a NotificationMessage
DeserializeMessage ==
    /\ rpc = "serialized"
    /\ received' = UnmarshalMessage(wire)
    /\ rpc' = "deserialized"
    /\ UNCHANGED <<payload, message, wire, unmarshalled, npVars, bootVars, pubVars>>

\* received.UnmarshalPayload(&SMSKafkaMessage{})
UnmarshalPayload ==
    /\ rpc = "deserialized"
    /\ unmarshalled' = UnmarshalSMS(received.Payload)
    /\ rpc' = "done"
    /\ UNCHANGED <<payload, message, wire, received, npVars, bootVars, pubVars>>

(* ------------------------------ producer ------------------------------- *)
\* the startup of a process whose producer is already in use
BootDone ==
    /\ variant = ConfigKafkaOnly
    /\ env = NoMap
    /\ spc = "constructed"
    /\ clientsBuilt = 1
    /\ storeReads = 1
    /\ response = NoResponse
    /\ secretData = NoMap
    /\ cfg = NoConfig
    /\ loadErr = Nil
    /\ brokers = NoBrokers
    /\ sasl = NoSASL
    /\ syncProducers = 1
    /\ ctorErr = Nil
    /\ services = [Producer |-> [closed |-> FALSE, config |-> NoConfig], Config |-> NoConfig]
    /\ initErr = Nil
    /\ looked = {}

\* no envelope is being built
RoundTripIdle ==
    /\ rpc = "idle"
    /\ payload = <<>>
    /\ message = <<>>
    /\ wire = <<>>
    /\ received = <<>>
    /\ unmarshalled = <<>>

\* state after NewNotificationProducer returned a producer
ProducerInit ==
    /\ closed = FALSE
    /\ mu = NoHolder
    /\ connCloses = 0
    /\ connSends = [p \in Calls |-> 0]
    /\ sentOnClosed = FALSE
    /\ pc = [p \in Calls |-> "idle"]
    /\ ctx = [p \in Calls |-> "live"]
    /\ preCanceled = [p \in Calls |-> FALSE]
    /\ afterClose = [p \in Calls |-> FALSE]
    /\ timer = [p \in Calls |-> "unset"]
    /\ done = [p \in Calls |-> <<>>]
    /\ recv = [p \in Calls |-> None]
    /\ result = [p \in Calls |-> None]
    /\ tpc = [p \in Calls |-> "none"]
    /\ err = [p \in Calls |-> None]
    /\ writes = [p \in Calls |-> 0]
    /\ cpc = [c \in Closers |-> "idle"]
    /\ touched = [c \in Closers |-> FALSE]
    /\ closeLog = "none"


(* ------------------------------ Close ---------------------------------- *)
\* a caller (or NotificationServices.Cleanup) issues np.Close(); the call
\* then waits at np.mu.Lock()
Close(c) ==
    /\ cpc[c] = "idle"
    /\ pc[c] = "idle"
    /\ cpc' = [cpc EXCEPT ![c] = "lock"]
    /\ UNCHANGED <<bootVars, rtVars, pubVars, prodVars, callVars, taskVars, touched, closeLog>>

\* faulty variant of CloseLocked: the `if np.closed { return }` guard is missing
CloseLockedUnguarded(c) ==
    /\ cpc[c] = "lock"
    /\ mu = NoHolder
    /\ mu' = CloseCall(c)
    /\ closed' = TRUE
    /\ connCloses' = connCloses + 1
    /\ touched' = [touched EXCEPT ![c] = TRUE]
    /\ cpc' = [cpc EXCEPT ![c] = "closing"]
    /\ UNCHANGED <<bootVars, rtVars, pubVars, connSends, sentOnClosed, callVars, taskVars, closeLog>>

\* faulty variant of CloseLocked: `np.closed = true` is missing
CloseLockedFlagUnset(c) ==
    /\ cpc[c] = "lock"
    /\ mu = NoHolder
    /\ IF closed
         THEN /\ cpc' = [cpc EXCEPT ![c] = "returned"]
              /\ UNCHANGED <<closed, mu, connCloses, touched>>
         ELSE /\ mu' = CloseCall(c)
              /\ UNCHANGED closed
              /\ connCloses' = connCloses + 1
              /\ touched' = [touched EXCEPT ![c] = TRUE]
              /\ cpc' = [cpc EXCEPT ![c] = "closing"]
    /\ UNCHANGED <<bootVars, rtVars, pubVars, connSends, sentOnClosed, callVars, taskVars, closeLog>>

\* np.mu.Lock() succeeds; if np.closed { return } runs the deferred Unlock
\* at once; otherwise np.closed = true and np.producer.Close() is invoked
\* with np.mu held
CloseLocked(c) ==
    /\ cpc[c] = "lock"
    /\ mu = NoHolder
    /\ IF closed
         THEN /\ cpc' = [cpc EXCEPT ![c] = "returned"]
              /\ UNCHANGED <<closed, mu, connCloses, touched>>
         ELSE /\ mu' = CloseCall(c)
              /\ closed' = TRUE
              /\ connCloses' = connCloses + 1
              /\ touched' = [touched EXCEPT ![c] = TRUE]
              /\ cpc' = [cpc EXCEPT ![c] = "closing"]
    /\ UNCHANGED <<bootVars, rtVars, pubVars, connSends, sentOnClosed, callVars, taskVars, closeLog>>

\* faulty variant of ProducerCloseReturn: a failed np.producer.Close() resets
\* np.closed so that a later Close call tries again
ProducerCloseReturnRetry(c) ==
    /\ cpc[c] = "closing"
    /\ \E failed \in BOOLEAN :
          /\ closeLog' = (IF failed THEN "error" ELSE "info")
          /\ closed' = ~failed
    /\ cpc' = [cpc EXCEPT ![c] = "returned"]
    /\ mu' = NoHolder
    /\ UNCHANGED <<bootVars, rtVars, pubVars, connCloses, connSends, sentOnClosed, callVars, taskVars, touched>>

\* faulty variant of ProducerCloseReturn: the deferred np.mu.Unlock() of
\* Close is missing
ProducerCloseReturnStillLocked(c) ==
    /\ cpc[c] = "closing"
    /\ \E failed \in BOOLEAN :
          closeLog' = (IF failed THEN "error" ELSE "info")
    /\ cpc' = [cpc EXCEPT ![c] = "returned"]
    /\ UNCHANGED <<bootVars, rtVars, pubVars, prodVars, callVars, taskVars, touched>>

\* np.producer.Close() returns, with or without an error; the error is only
\* logged (Errorf), as is the success (Infof); the deferred np.mu.Unlock()
\* runs and Close returns
ProducerCloseReturn(c) ==
    /\ cpc[c] = "closing"
    /\ \E failed \in BOOLEAN :
          closeLog' = (IF failed THEN "error" ELSE "info")
    /\ cpc' = [cpc EXCEPT ![c] = "returned"]
    /\ mu' = NoHolder
    /\ UNCHANGED <<bootVars, rtVars, pubVars, closed, connCloses, connSends, sentOnClosed, callVars, taskVars, touched>>

(* -------------------------- PublishMessage ----------------------------- *)
\* PublishMessage up to the go statement of produceAndWait: the envelope is
\* built by dto.NewNotificationMessage, which fails when the payload does not
\* marshal, and serialized by json.Marshal, which fails when the creation
\* time does not marshal; otherwise done is made and the send goroutine is
\* started
PublishMessage(p) ==
    /\ pc[p] = "idle"
    /\ cpc[p] = "idle"
    /\ \E failure \in {Nil, WrapCreate(ErrMarshal), WrapMarshal(ErrTime)},
          c \in {"live", "canceled"} :
          /\ ctx' = [ctx EXCEPT ![p] = c]
          /\ preCanceled' = [preCanceled EXCEPT ![p] = (c = "canceled")]
          /\ afterClose' = [afterClose EXCEPT ![p] = (\E k \in Closers : cpc[k] = "returned")]
          /\ IF failure = Nil
               THEN /\ pc' = [pc EXCEPT ![p] = "select"]
                    /\ tpc' = [tpc EXCEPT ![p] = "lock"]
                    /\ UNCHANGED result
               ELSE /\ pc' = [pc EXCEPT ![p] = "returned"]
                    /\ result' = [result EXCEPT ![p] = failure]
                    /\ UNCHANGED tpc
    /\ UNCHANGED <<bootVars, rtVars, pubVars, prodVars, timer, done, recv, err, writes, closeVars>>

\* the cases of the select that are ready when it is entered
Ready(p) ==
    (IF done[p] # <<>> THEN {"done"} ELSE {}) \cup
    (IF ctx[p] = "canceled" THEN {"ctx"} ELSE {})

\* the select is entered: time.After starts the timer; a ready case is taken
\* (any one of them when several are ready), otherwise the call blocks
ProduceAndWaitSelect(p) ==
    /\ pc[p] = "select"
    /\ timer' = [timer EXCEPT ![p] = "armed"]
    /\ IF Ready(p) = {}
         THEN /\ pc' = [pc EXCEPT ![p] = "waiting"]
              /\ UNCHANGED <<done, recv, result>>
         ELSE \E k \in Ready(p) :
                /\ pc' = [pc EXCEPT ![p] = "returned"]
                /\ IF k = "done"
                     THEN /\ result' = [result EXCEPT ![p] = Head(done[p])]
                          /\ recv' = [recv EXCEPT ![p] = Head(done[p])]
                          /\ done' = [done EXCEPT ![p] = Tail(done[p])]
                     ELSE /\ result' = [result EXCEPT ![p] = ErrCanceled]
                          /\ UNCHANGED <<done, recv>>
    /\ UNCHANGED <<bootVars, rtVars, pubVars, prodVars, ctx, preCanceled, afterClose, taskVars, closeVars>>

\* the caller's context is canceled while the call is in progress; a call
\* blocked in the select takes case <-ctx.Done() and returns ctx.Err()
CancelCtx(p) ==
    /\ pc[p] \in {"select", "waiting"}
    /\ ctx[p] = "live"
    /\ ctx' = [ctx EXCEPT ![p] = "canceled"]
    /\ IF pc[p] = "waiting"
         THEN /\ pc' = [pc EXCEPT ![p] = "returned"]
              /\ result' = [result EXCEPT ![p] = ErrCanceled]
         ELSE UNCHANGED <<pc, result>>
    /\ UNCHANGED <<bootVars, rtVars, pubVars, prodVars, preCanceled, afterClose, timer, done, recv, taskVars, closeVars>>

\* faulty variant of SelectTimeout: the timeout case returns nil
SelectTimeoutNil(p) ==
    /\ pc[p] = "waiting"
    /\ timer[p] = "armed"
    /\ timer' = [timer EXCEPT ![p] = "fired"]
    /\ pc' = [pc EXCEPT ![p] = "returned"]
    /\ result' = [result EXCEPT ![p] = Nil]
    /\ UNCHANGED <<bootVars, rtVars, pubVars, prodVars, ctx, preCanceled, afterClose, done, recv, taskVars, closeVars>>

\* faulty variant of SelectTimeout: the select has no time.After case
SelectTimeoutAbsent(p) ==
    /\ FALSE
    /\ pc[p] = "waiting"
    /\ UNCHANGED vars

\* the 30 second timer fires while the call is blocked in the select
SelectTimeout(p) ==
    /\ pc[p] = "waiting"
    /\ timer[p] = "armed"
    /\ timer' = [timer EXCEPT ![p] = "fired"]
    /\ pc' = [pc EXCEPT ![p] = "returned"]
    /\ result' = [result EXCEPT ![p] = ErrTimeout]
    /\ UNCHANGED <<bootVars, rtVars, pubVars, prodVars, ctx, preCanceled, afterClose, done, recv, taskVars, closeVars>>

(* --------------------------- send goroutine ---------------------------- *)
\* faulty variant of SafeSendLocked: the `if np.closed` guard is missing
SafeSendLockedUnguarded(p) ==
    /\ tpc[p] = "lock"
    /\ mu = NoHolder
    /\ mu' = SendTask(p)
    /\ connSends' = [connSends EXCEPT ![p] = @ + 1]
    /\ sentOnClosed' = (sentOnClosed \/ closed)
    /\ tpc' = [tpc EXCEPT ![p] = "sending"]
    /\ UNCHANGED <<bootVars, rtVars, pubVars, closed, connCloses, callVars, err, writes, closeVars>>

\* faulty variant of SafeSendLocked: the send goroutine is tied to the publish
\* call and stops when the call has returned
SafeSendLockedAborted(p) ==
    /\ tpc[p] = "lock"
    /\ pc[p] # "returned"
    /\ mu = NoHolder
    /\ IF closed
         THEN /\ err' = [err EXCEPT ![p] = ErrClosed]
              /\ tpc' = [tpc EXCEPT ![p] = "write"]
              /\ UNCHANGED <<mu, connSends, sentOnClosed>>
         ELSE /\ mu' = SendTask(p)
              /\ connSends' = [connSends EXCEPT ![p] = @ + 1]
              /\ sentOnClosed' = (sentOnClosed \/ closed)
              /\ tpc' = [tpc EXCEPT ![p] = "sending"]
              /\ UNCHANGED err
    /\ UNCHANGED <<bootVars, rtVars, pubVars, closed, connCloses, callVars, writes, closeVars>>

\* faulty variant of SafeSendLocked: np.mu is not taken around SendMessage
SafeSendUnlocked(p) ==
    /\ tpc[p] = "lock"
    /\ IF closed
         THEN /\ err' = [err EXCEPT ![p] = ErrClosed]
              /\ tpc' = [tpc EXCEPT ![p] = "write"]
              /\ UNCHANGED <<connSends, sentOnClosed>>
         ELSE /\ connSends' = [connSends EXCEPT ![p] = @ + 1]
              /\ sentOnClosed' = (sentOnClosed \/ closed)
              /\ tpc' = [tpc EXCEPT ![p] = "sending"]
              /\ UNCHANGED err
    /\ UNCHANGED <<bootVars, rtVars, pubVars, closed, mu, connCloses, callVars, writes, closeVars>>

\* faulty variant of SafeSendLocked: np.mu admits a send goroutine while
\* another send goroutine holds it (a lock shared among senders)
SafeSendLockedShared(p) ==
    /\ tpc[p] = "lock"
    /\ mu = NoHolder \/ \E q \in Calls : mu = SendTask(q)
    /\ IF closed
         THEN /\ err' = [err EXCEPT ![p] = ErrClosed]
              /\ tpc' = [tpc EXCEPT ![p] = "write"]
              /\ UNCHANGED <<mu, connSends, sentOnClosed>>
         ELSE /\ mu' = SendTask(p)
              /\ connSends' = [connSends EXCEPT ![p] = @ + 1]
              /\ sentOnClosed' = (sentOnClosed \/ closed)
              /\ tpc' = [tpc EXCEPT ![p] = "sending"]
              /\ UNCHANGED err
    /\ UNCHANGED <<bootVars, rtVars, pubVars, closed, connCloses, callVars, writes, closeVars>>

\* safeSendMessage: np.mu.Lock() succeeds; if np.closed the error is returned
\* and the deferred Unlock runs at once; otherwise np.producer.SendMessage is
\* invoked with np.mu held
SafeSendLocked(p) ==
    /\ tpc[p] = "lock"
    /\ mu = NoHolder
    /\ IF closed
         THEN /\ err' = [err EXCEPT ![p] = ErrClosed]
              /\ tpc' = [tpc EXCEPT ![p] = "write"]
              /\ UNCHANGED <<mu, connSends, sentOnClosed>>
         ELSE /\ mu' = SendTask(p)
              /\ connSends' = [connSends EXCEPT ![p] = @ + 1]
              /\ sentOnClosed' = (sentOnClosed \/ closed)
              /\ tpc' = [tpc EXCEPT ![p] = "sending"]
              /\ UNCHANGED err
    /\ UNCHANGED <<bootVars, rtVars, pubVars, closed, connCloses, callVars, writes, closeVars>>

\* faulty variant of SendMessageReturn: a broker error marks the producer closed
SendMessageReturnClosesOnError(p) ==
    /\ tpc[p] = "sending"
    /\ \E e \in {Nil, ErrBroker} :
          /\ err' = [err EXCEPT ![p] = e]
          /\ closed' = (closed \/ e = ErrBroker)
    /\ mu' = NoHolder
    /\ tpc' = [tpc EXCEPT ![p] = "write"]
    /\ UNCHANGED <<bootVars, rtVars, pubVars, connCloses, connSends, sentOnClosed, callVars, writes, closeVars>>

\* faulty variant of SendMessageReturn: after a broker error the goroutine
\* calls safeSendMessage again
SendMessageReturnRetried(p) ==
    /\ tpc[p] = "sending"
    /\ \E e \in {Nil, ErrBroker} :
          /\ err' = [err EXCEPT ![p] = e]
          /\ tpc' = [tpc EXCEPT ![p] = IF e = Nil THEN "write" ELSE "lock"]
    /\ mu' = NoHolder
    /\ UNCHANGED <<bootVars, rtVars, pubVars, closed, connCloses, connSends, sentOnClosed, callVars, writes, closeVars>>

\* faulty variant of SendMessageReturn: the deferred np.mu.Unlock() is missing
SendMessageReturnStillLocked(p) ==
    /\ tpc[p] = "sending"
    /\ \E e \in {Nil, ErrBroker} :
          err' = [err EXCEPT ![p] = e]
    /\ tpc' = [tpc EXCEPT ![p] = "write"]
    /\ UNCHANGED <<bootVars, rtVars, pubVars, prodVars, callVars, writes, closeVars>>

\* np.producer.SendMessage returns success or a broker error; the deferred
\* np.mu.Unlock() runs and safeSendMessage returns
SendMessageReturn(p) ==
    /\ tpc[p] = "sending"
    /\ \E e \in {Nil, ErrBroker} :
          err' = [err EXCEPT ![p] = e]
    /\ mu' = NoHolder
    /\ tpc' = [tpc EXCEPT ![p] = "write"]
    /\ UNCHANGED <<bootVars, rtVars, pubVars, closed, connCloses, connSends, sentOnClosed, callVars, writes, closeVars>>

\* faulty variant of DoneValue: the `if err != nil` branch is missing
DoneValueAlwaysNil(e) == Nil

\* the value the goroutine writes to done
DoneValue(e) == IF e # Nil THEN WrapProduce(e) ELSE Nil

\* done <- value: handed to the call blocked in the select, which returns
\* it, or buffered when the channel has room
GoroutineWrite(p) ==
    /\ tpc[p] = "write"
    /\ \/ /\ pc[p] = "waiting"
          /\ pc' = [pc EXCEPT ![p] = "returned"]
          /\ result' = [result EXCEPT ![p] = DoneValue(err[p])]
          /\ recv' = [recv EXCEPT ![p] = DoneValue(err[p])]
          /\ UNCHANGED done
       \/ /\ pc[p] # "waiting"
          /\ Len(done[p]) < DoneCap
          /\ done' = [done EXCEPT ![p] = Append(@, DoneValue(err[p]))]
          /\ UNCHANGED <<pc, result, recv>>
    /\ writes' = [writes EXCEPT ![p] = @ + 1]
    /\ tpc' = [tpc EXCEPT ![p] = "done"]
    /\ UNCHANGED <<bootVars, rtVars, pubVars, prodVars, ctx, preCanceled, afterClose, timer, err, closeVars>>

(* --------------------------- one publish call -------------------------- *)
\* the kind tags of the five notification kinds
Kinds == {<<"e", "m", "a", "i", "l">>, <<"s", "m", "s">>, <<"i", "n", "_", "a", "p", "p">>,
          <<"p", "u", "s", "h">>, <<"f", "e", "e", "d", "b", "a", "c", "k">>}

\* the per-kind publish operations of the producer: the kind tag, the field of
\* np.config that holds the topic, and the logType each hands to PublishMessage
PublishOps ==
    {[op |-> "PublishSMSMessage", msgType |-> <<"s", "m", "s">>,
      field |-> "SMSTopic", logType |-> "SMS"],
     [op |-> "PublishEmailMessage", msgType |-> <<"e", "m", "a", "i", "l">>,
      field |-> "EmailTopic", logType |-> "Email"],
     [op |-> "PublishInAppMessage", msgType |-> <<"i", "n", "_", "a", "p", "p">>,
      field |-> "InAppTopic", logType |-> "In-App Notification"],
     [op |-> "PublishPushMessage", msgType |-> <<"p", "u", "s", "h">>,
      field |-> "PushTopic", logType |-> "Push Notification"]}

\* the per-kind operations a build offers: the copy of the producer that has
\* them compiles only against a KafkaConfig that has every field they read;
\* the other copy of the producer has PublishMessage only
OpsOf(v) == IF \A o \in PublishOps : o.field \in FieldNames(v) THEN PublishOps ELSE {}

\* the kinds and topics handed to PublishMessage directly
DirectTypes == {<<"s", "m", "s">>, <<"f", "e", "e", "d", "b", "a", "c", "k">>}
DirectTopics == {<<"t">>}

\* the payloads of the call
PublishPayloads == {p \in PayloadInputs : p.Recipient = <<"r">> /\ p.Priority = 0}

\* readings of the clock: the text of the wall clock reading is its year and,
\* after a ".", its fraction of a second (the fields in between are left
\* out); the last one is the clock of a host set past the year 9999
ClockInputs ==
    {[wall |-> w, mono |-> TRUE] :
       w \in {<<"2", "0", "2", "5">>, <<"2", "0", "2", "5", ".", "5">>, <<"1", "0", "0", "0", "0">>}}

\* the decimal text of time.Now().UnixNano()
NanoInputs == {<<"0">>, <<"1", "7">>}

\* t.Format(time.RFC3339): the reading without its fraction of a second
RFC3339(t) == Split(t.wall, ".")[1]

\* Time.MarshalJSON fails for a year outside [0, 9999], and json.Marshal of
\* the envelope with it
TimeMarshalOK(t) == Atoi(RFC3339(t)).v \in 0..9999

\* the steps of a publish call and of its send goroutine
StepOrder == <<"envelope", "serialize", "headers", "go", "lock", "send">>

\* no publish call is being followed
PublishIdle ==
    /\ ppc = "idle"
    /\ call = <<>>
    /\ notificationMsg = <<>>
    /\ messageBytes = <<>>
    /\ kafkaMsg = <<>>
    /\ handed = <<>>
    /\ steps = <<>>
    /\ pubErr = None

\* the owning process calls one of the per-kind operations, which passes its
\* kind tag and the topic of np.config on to PublishMessage, or calls
\* PublishMessage itself
CallPublish ==
    /\ ppc = "idle"
    /\ \E p \in PublishPayloads :
          \/ \E o \in OpsOf(variant) :
                call' = [op |-> o.op, msgType |-> o.msgType,
                         topic |-> services.Producer.config[o.field],
                         logType |-> o.logType, payload |-> p]
          \/ \E k \in DirectTypes, t \in DirectTopics :
                call' = [op |-> "PublishMessage", msgType |-> k, topic |-> t,
                         logType |-> "", payload |-> p]
    /\ ppc' = "called"
    /\ UNCHANGED <<notificationMsg, messageBytes, kafkaMsg, handed, steps, pubErr,
                   npVars, bootVars, rtVars>>

\* dto.NewNotificationMessage(fmt.Sprintf("%s-%d", msgType, UnixNano), msgType,
\* payload); on an error PublishMessage returns it wrapped
BuildEnvelope ==
    /\ ppc = "called"
    /\ steps' = Append(steps, "envelope")
    /\ \E n \in NanoInputs, now \in ClockInputs :
          IF MarshalPayload(call.payload).ok
            THEN /\ notificationMsg' = [ID |-> call.msgType \o <<"-">> \o n,
                                        Type |-> call.msgType,
                                        Payload |-> MarshalPayload(call.payload).j,
                                        CreatedAt |-> now, Headers |-> MapOf(NoMap)]
                 /\ ppc' = "built"
                 /\ UNCHANGED pubErr
            ELSE /\ pubErr' = WrapCreate(ErrMarshal)
                 /\ ppc' = "returned"
                 /\ UNCHANGED notificationMsg
    /\ UNCHANGED <<call, messageBytes, kafkaMsg, handed, npVars, bootVars, rtVars>>

\* faulty variant of MarshalEnvelope: the error of json.Marshal is dropped and
\* the call goes on with what it has
MarshalEnvelopeErrorDropped ==
    /\ ppc = "built"
    /\ steps' = Append(steps, "serialize")
    /\ messageBytes' = MarshalMessage(notificationMsg)
    /\ ppc' = "serialized"
    /\ pubErr' = (IF TimeMarshalOK(notificationMsg.CreatedAt) THEN pubErr
                  ELSE WrapMarshal(ErrTime))
    /\ UNCHANGED <<call, notificationMsg, kafkaMsg, handed, npVars, bootVars, rtVars>>

\* json.Marshal(notificationMsg); on an error PublishMessage returns it wrapped
MarshalEnvelope ==
    /\ ppc = "built"
    /\ steps' = Append(steps, "serialize")
    /\ IF TimeMarshalOK(notificationMsg.CreatedAt)
         THEN /\ messageBytes' = MarshalMessage(notificationMsg)
              /\ ppc' = "serialized"
              /\ UNCHANGED pubErr
         ELSE /\ pubErr' = WrapMarshal(ErrTime)
              /\ ppc' = "returned"
              /\ UNCHANGED messageBytes
    /\ UNCHANGED <<call, notificationMsg, kafkaMsg, handed, npVars, bootVars, rtVars>>

\* faulty variant of AttachHeaders: the timestamp header is the reading as
\* json.Marshal writes it (time.RFC3339Nano), fraction included
AttachHeadersNano ==
    /\ ppc = "serialized"
    /\ steps' = Append(steps, "headers")
    /\ kafkaMsg' = [Topic |-> call.topic,
                    Value |-> messageBytes,
                    Headers |-> <<[Key |-> "message_id", Value |-> notificationMsg.ID],
                                  [Key |-> "type", Value |-> call.msgType],
                                  [Key |-> "timestamp", Value |-> notificationMsg.CreatedAt.wall]>>]
    /\ ppc' = "produce"
    /\ UNCHANGED <<call, notificationMsg, messageBytes, handed, pubErr, npVars, bootVars, rtVars>>

\* kafkaMsg := &sarama.ProducerMessage{Topic, Value, Headers}
AttachHeaders ==
    /\ ppc = "serialized"
    /\ steps' = Append(steps, "headers")
    /\ kafkaMsg' = [Topic |-> call.topic,
                    Value |-> messageBytes,
                    Headers |-> <<[Key |-> "message_id", Value |-> notificationMsg.ID],
                                  [Key |-> "type", Value |-> call.msgType],
                                  [Key |-> "timestamp", Value |-> RFC3339(notificationMsg.CreatedAt)]>>]
    /\ ppc' = "produce"
    /\ UNCHANGED <<call, notificationMsg, messageBytes, handed, pubErr, npVars, bootVars, rtVars>>

\* produceAndWait: done is made and the send goroutine is started
SpawnSend ==
    /\ ppc = "produce"
    /\ steps' = Append(steps, "go")
    /\ ppc' = "spawned"
    /\ UNCHANGED <<call, notificationMsg, messageBytes, kafkaMsg, handed, pubErr,
                   npVars, bootVars, rtVars>>

\* the goroutine's safeSendMessage(kafkaMsg) with nothing else running: np.mu
\* is taken, the message is handed to np.producer.SendMessage unless np.closed,
\* np.mu is released and the call receives the outcome from done (the race of
\* the confirmation wait is that of ProduceAndWaitSelect)
SendUnderLock ==
    /\ ppc = "spawned"
    /\ mu = NoHolder
    /\ IF closed
         THEN /\ steps' = Append(steps, "lock")
              /\ pubErr' = DoneValue(ErrClosed)
              /\ UNCHANGED handed
         ELSE /\ steps' = steps \o <<"lock", "send">>
              /\ handed' = Append(handed, kafkaMsg)
              /\ \E e \in {Nil, ErrBroker} : pubErr' = DoneValue(e)
    /\ ppc' = "returned"
    /\ UNCHANGED <<call, notificationMsg, messageBytes, kafkaMsg, npVars, bootVars, rtVars>>

(* ---------------------------- specification ---------------------------- *)
Init == ProducerInit /\ BootDone /\ RoundTripIdle /\ PublishIdle

Next ==
    \/ \E c \in Closers : Close(c)
    \/ \E c \in Closers : CloseLocked(c)
    \/ \E c \in Closers : ProducerCloseReturn(c)
    \/ \E p \in Calls : PublishMessage(p)
    \/ \E p \in Calls : ProduceAndWaitSelect(p)
    \/ \E p \in Calls : CancelCtx(p)
    \/ \E p \in Calls : SelectTimeout(p)
    \/ \E p \in Calls : SafeSendLocked(p)
    \/ \E p \in Calls : SendMessageReturn(p)
    \/ \E p \in Calls : GoroutineWrite(p)

Spec == Init /\ [][Next]_vars

\* InitializeNotificationServices: Load, then NewNotificationProducer on the
\* configuration it returned, in either copy of package config and in any
\* environment
StartupInit ==
    /\ variant \in Variants
    /\ env \in Environments(variant)
    /\ spc = "start"
    /\ clientsBuilt = 0
    /\ storeReads = 0
    /\ response = NoResponse
    /\ secretData = NoMap
    /\ cfg = NoConfig
    /\ loadErr = None
    /\ brokers = NoBrokers
    /\ sasl = NoSASL
    /\ syncProducers = 0
    /\ ctorErr = None
    /\ services = NoServices
    /\ initErr = None
    /\ looked = {}
    /\ ProducerInit
    /\ RoundTripIdle
    /\ PublishIdle

StartupNext ==
    \/ Load
    \/ NewNotificationProducer

StartupSpec == StartupInit /\ [][StartupNext]_vars

\* the configurations a caller may hand to NewNotificationProducer: the
\* defaults of Load with any broker string and any SASL setting
ProducerConfigs ==
    {[LoadConfig(ConfigKafkaOnly, NoMap) EXCEPT
         !.Brokers = b, !.SASLEnabled = e, !.SASLUsername = u, !.SASLPassword = u] :
     b \in BrokerInputs, e \in BOOLEAN, u \in {<<>>, <<"u">>}}

\* NewNotificationProducer called on any such configuration
ConstructorInit ==
    /\ variant = ConfigKafkaOnly
    /\ env = NoMap
    /\ spc = "loaded"
    /\ clientsBuilt = 1
    /\ storeReads = 1
    /\ response = NoResponse
    /\ secretData = NoMap
    /\ cfg \in ProducerConfigs
    /\ loadErr = Nil
    /\ brokers = NoBrokers
    /\ sasl = NoSASL
    /\ syncProducers = 0
    /\ ctorErr = None
    /\ services = NoServices
    /\ initErr = None
    /\ looked = {}
    /\ ProducerInit
    /\ RoundTripIdle
    /\ PublishIdle

ConstructorNext == NewNotificationProducer

ConstructorSpec == ConstructorInit /\ [][ConstructorNext]_vars

\* an envelope built by NewNotificationMessage, serialized, deserialized and
\* its payload read back with UnmarshalPayload
RoundTripInit ==
    /\ RoundTripIdle
    /\ ProducerInit
    /\ BootDone
    /\ PublishIdle

RoundTripNext ==
    \/ NewNotificationMessage
    \/ SerializeMessage
    \/ DeserializeMessage
    \/ UnmarshalPayload

RoundTripSpec == RoundTripInit /\ [][RoundTripNext]_vars

\* Load, and the lookups made on its VaultClient afterwards, in a process
\* whose three bootstrap variables are set
ResolverInit ==
    /\ StartupInit
    /\ \A n \in BootNames : env[n] # <<>>

ResolverNext ==
    \/ Load
    \/ \E key \in LookupKeys : GetSecretCall(key)

ResolverSpec == ResolverInit /\ [][ResolverNext]_vars

\* the secrets behind the producer whose publish call is followed: the
\* brokers alone (every topic is its default), and the SMS topic with them
PublishSecrets ==
    {WithSecret(NoMap, "KAFKA_BROKERS", StringValue(<<"b">>)),
     WithSecret(WithSecret(NoMap, "KAFKA_BROKERS", StringValue(<<"b">>)),
                "KAFKA_SMS_TOPIC", StringValue(<<"s">>))}

\* one publish call on a producer built by InitializeNotificationServices,
\* step by step, with no other call running
PublishInit ==
    /\ variant \in Variants
    /\ env = NoMap
    /\ spc = "constructed"
    /\ clientsBuilt = 1
    /\ storeReads = 1
    /\ \E sd \in PublishSecrets :
          /\ response = KV(sd)
          /\ secretData = sd
          /\ cfg = LoadConfig(variant, sd)
    /\ loadErr = Nil
    /\ brokers = <<<<"b">>>>
    /\ sasl = NoSASL
    /\ syncProducers = 1
    /\ ctorErr = Nil
    /\ services = [Producer |-> [closed |-> FALSE, config |-> Kafka(cfg)], Config |-> cfg]
    /\ initErr = Nil
    /\ looked = {}
    /\ ProducerInit
    /\ RoundTripIdle
    /\ PublishIdle

PublishNext ==
    \/ CallPublish
    \/ BuildEnvelope
    \/ MarshalEnvelope
    \/ AttachHeaders
    \/ SpawnSend
    \/ SendUnderLock

PublishSpec == PublishInit /\ [][PublishNext]_vars

\* the confirmation wait under a fair timer only: the caller reaches its
\* select and an armed timer fires; nothing is assumed of the connection,
\* the mutex or the send goroutines
TimerSpec ==
    /\ Init /\ [][Next]_vars
    /\ \A p \in Calls : WF_vars(ProduceAndWaitSelect(p))
    /\ \A p \in Calls : WF_vars(SelectTimeout(p))

\* fair scheduling of the program's own steps: a goroutine that can run does
\* run, an armed timer fires, and a goroutine waiting at np.mu.Lock() gets the
\* mutex once it stays free; whether a call into the connection (SendMessage,
\* Close) ever returns is not assumed
LiveSpec ==
    /\ Init /\ [][Next]_vars
    /\ \A p \in Calls : WF_vars(ProduceAndWaitSelect(p))
    /\ \A p \in Calls : WF_vars(SelectTimeout(p))
    /\ \A p \in Calls : WF_vars(SafeSendLocked(p))
    /\ \A p \in Calls : WF_vars(GoroutineWrite(p))
    /\ \A c \in Closers : WF_vars(CloseLocked(c))

(* ------------------------------ properties ----------------------------- *)

\* C1: however many Close calls are issued, alone or racing each other and
\* publish calls, np.producer.Close() is invoked exactly once: at most one
\* Close call touches the connection, and as soon as any Close call has
\* returned the connection has been released exactly once; every other
\* Close call returns without touching it.
C1_CloseReleasesOnce ==
    /\ connCloses <= 1
    /\ Cardinality({c \in Closers : touched[c]}) = connCloses
    /\ (\E c \in Closers : cpc[c] \in {"closing", "returned"}) => connCloses = 1
    /\ \A c \in Closers : touched[c] => cpc[c] \in {"closing", "returned"}

C1_Witness ==
    \E c, k \in Closers :
        /\ c # k
        /\ cpc[c] = "returned" /\ touched[c]
        /\ cpc[k] = "returned" /\ ~touched[k]
        /\ connCloses = 1

\* C2: once np.closed is true it stays true, and no step taken when the flag
\* becomes or is already true invokes np.producer.SendMessage.
C2_ClosedIsFinal ==
    [][/\ closed => closed'
       /\ closed' => connSends' = connSends]_vars

C2_Witness ==
    /\ closed
    /\ \E p \in Calls : tpc[p] = "done" /\ err[p] = ErrClosed /\ connSends[p] = 0

\* C3 (as claimed): every publish call started after a Close call returned,
\* and that got as far as its confirmation wait, returns the wrapped
\* "producer is closed" error, whatever the caller's context.
C3_AlwaysProducerClosed ==
    \A p \in Calls :
        (afterClose[p] /\ pc[p] = "returned" /\ tpc[p] # "none")
            => result[p] = WrapProduce(ErrClosed)

\* C3 (amended): a publish call started after a Close call returned never
\* invokes SendMessage and never returns nil; the only value its result
\* channel carries is the wrapped "producer is closed" error, and the call
\* returns that error, or ctx.Err() when its context is canceled, or the
\* timeout error, or, before any goroutine is started, the envelope
\* construction error or the envelope serialization error.
C3_AfterCloseNoSend ==
    \A p \in Calls :
        afterClose[p] =>
            /\ connSends[p] = 0
            /\ err[p] \in {None, ErrClosed}
            /\ recv[p] \in {None, WrapProduce(ErrClosed)}
            /\ \A i \in 1..Len(done[p]) : done[p][i] = WrapProduce(ErrClosed)
            /\ pc[p] = "returned" =>
                  /\ result[p] \in {WrapProduce(ErrClosed), ErrCanceled, ErrTimeout,
                                    WrapCreate(ErrMarshal), WrapMarshal(ErrTime)}
                  /\ result[p] = ErrCanceled => ctx[p] = "canceled"
                  /\ result[p] = ErrTimeout => timer[p] = "fired"
                  /\ result[p] \in {WrapCreate(ErrMarshal), WrapMarshal(ErrTime)} =>
                        tpc[p] = "none"

C3_Witness ==
    \E p \in Calls :
        /\ afterClose[p] /\ pc[p] = "returned"
        /\ result[p] = WrapProduce(ErrClosed)
        /\ connSends[p] = 0

\* C4: a publish call made with an already canceled context, and that got as
\* far as its confirmation wait, returns ctx.Err(), never what the send
\* goroutine reported, and never blocks in the select.
C4_PreCanceledReturnsCtxErr ==
    \A p \in Calls :
        (preCanceled[p] /\ tpc[p] # "none") =>
            /\ pc[p] # "waiting"
            /\ pc[p] = "returned" => result[p] = ErrCanceled

\* C5: a call is blocked in the select only with its timer armed, with
\* nothing on done and with a live context; when the timer then fires the
\* call returns the timeout error, having received nothing from done.
C5_TimeoutError ==
    \A p \in Calls :
        /\ pc[p] = "waiting" =>
              /\ timer[p] = "armed" /\ done[p] = <<>> /\ ctx[p] = "live"
              /\ ENABLED SelectTimeout(p)
        /\ timer[p] = "fired" =>
              /\ pc[p] = "returned"
              /\ result[p] = ErrTimeout
              /\ recv[p] = None
              /\ ctx[p] = "live"
        /\ result[p] = ErrTimeout => timer[p] = "fired"

C5_Witness ==
    \E p \in Calls :
        /\ timer[p] = "fired" /\ result[p] = ErrTimeout
        /\ tpc[p] = "sending"

\* C6: every publish call that was made eventually returns, with no more
\* than a fair timer: also when SendMessage never returns, when np.mu is
\* never handed to its send goroutine and when its context is never canceled.
C6_PublishReturns ==
    [](\A p \in Calls : (pc[p] # "idle") => <>(pc[p] = "returned"))

C6_Witness ==
    \E p, q \in Calls :
        /\ p # q
        /\ tpc[q] = "sending"
        /\ tpc[p] = "lock" /\ ctx[p] = "live"
        /\ pc[p] = "returned" /\ result[p] = ErrTimeout

\* C7: a publish call returns nil only after its own goroutine invoked
\* SendMessage, on a producer whose closed flag was false, and SendMessage
\* returned success; a failure received from done is the wrapped error of
\* that goroutine's send and is what the call returns.
C7_NilOnlyOnSuccess ==
    /\ ~sentOnClosed
    /\ \A p \in Calls :
          /\ result[p] = Nil =>
                connSends[p] = 1 /\ err[p] = Nil /\ recv[p] = Nil
          /\ recv[p] \notin {None, Nil} =>
                /\ err[p] \in {ErrClosed, ErrBroker}
                /\ recv[p] = WrapProduce(err[p])
                /\ result[p] = recv[p]

C7_Witness ==
    \E p, q \in Calls :
        /\ result[p] = Nil /\ connSends[p] = 1
        /\ result[q] = WrapProduce(ErrBroker)

C9_ConnectionUnderLock ==
    /\ \A p \in Calls : tpc[p] = "sending" <=> mu = SendTask(p)
    /\ \A c \in Closers : cpc[c] = "closing" <=> mu = CloseCall(c)
    /\ Cardinality({p \in Calls : tpc[p] = "sending"})
         + Cardinality({c \in Closers : cpc[c] = "closing"}) <= 1
    /\ (\E p \in Calls : tpc[p] = "sending") => ~closed

C9_Witness ==
    \E c \in Closers, p \in Calls :
        /\ cpc[c] = "closing" /\ mu = CloseCall(c)
        /\ tpc[p] = "lock"

\* C10: a send goroutine writes to done exactly once, done never holds more
\* than one value, and the write is never blocked: a goroutine that reached
\* it can always complete it, also after its publish call has returned.
C10_WriteNeverBlocks ==
    \A p \in Calls :
        /\ writes[p] = (IF tpc[p] = "done" THEN 1 ELSE 0)
        /\ Len(done[p]) <= 1
        /\ tpc[p] = "write" => ENABLED GoroutineWrite(p)

C10_Witness ==
    \E p \in Calls :
        /\ pc[p] = "returned" /\ recv[p] = None
        /\ result[p] \in {ErrCanceled, ErrTimeout}
        /\ tpc[p] = "done" /\ Len(done[p]) = 1

\* C11: a step of one publish call or of its send goroutine (a serialization
\* failure, a send failure, a cancellation, a timeout, or any other step)
\* changes nothing of any other publish call: not its position, context,
\* timer, result channel, received value, result, send outcome or send count;
\* and no publish step changes np.closed or the Close calls, so later calls
\* find the producer as it was. A goroutine whose send has returned, failed
\* or not, no longer holds np.mu.
C11_FailureStaysWithCall ==
    [][\A p \in Calls :
          (pc'[p] # pc[p] \/ tpc'[p] # tpc[p] \/ ctx'[p] # ctx[p] \/ timer'[p] # timer[p]) =>
              /\ \A q \in Calls \ {p} :
                    /\ pc'[q] = pc[q] /\ ctx'[q] = ctx[q] /\ timer'[q] = timer[q]
                    /\ done'[q] = done[q] /\ recv'[q] = recv[q]
                    /\ result'[q] = result[q]
                    /\ tpc'[q] = tpc[q] /\ err'[q] = err[q] /\ writes'[q] = writes[q]
                    /\ connSends'[q] = connSends[q]
              /\ closed' = closed /\ connCloses' = connCloses
              /\ UNCHANGED closeVars
              /\ tpc'[p] \in {"write", "done"} => mu' # SendTask(p)]_vars

C11_Witness ==
    \E p, q \in Calls :
        /\ p # q
        /\ pc[p] = "returned" /\ result[p] = WrapProduce(ErrBroker)
        /\ pc[q] = "returned" /\ result[q] = Nil /\ connSends[q] = 1
        /\ ~closed

\* C18: when np.producer.Close() fails, the Close call that invoked it returns
\* and releases np.mu in the same step, np.closed is true and stays true, the
\* connection is never closed a second time and no later Close call reaches
\* np.producer.Close(), and every send goroutine that passes the closed check
\* from then on gets "producer is closed" without invoking SendMessage.
C18_CloseSwallowsFailure ==
    [][/\ (closeLog # "error" /\ closeLog' = "error") =>
              /\ \E c \in Closers : cpc[c] = "closing" /\ cpc'[c] = "returned"
              /\ mu' = NoHolder
              /\ closed /\ closed' /\ connCloses' = 1
       /\ closeLog = "error" =>
              /\ closeLog' = "error"
              /\ closed' /\ connCloses' = 1
              /\ touched' = touched
              /\ \A c \in Closers : cpc'[c] = "closing" => cpc[c] = "closing"
              /\ \A c \in Closers : (cpc[c] = "lock" /\ cpc'[c] # "lock") => cpc'[c] = "returned"
              /\ \A p \in Calls :
                    (tpc[p] = "lock" /\ tpc'[p] # "lock") =>
                        /\ err'[p] = ErrClosed
                        /\ connSends' = connSends
              /\ \A p \in Calls :
                    (tpc[p] = "write" /\ tpc'[p] = "done" /\ err[p] = ErrClosed /\ pc'[p] # pc[p]) =>
                        result'[p] = WrapProduce(ErrClosed)]_vars

C18_Witness ==
    /\ closeLog = "error" /\ closed /\ connCloses = 1
    /\ \A c \in Closers : cpc[c] \in {"idle", "returned"}
    /\ \E p \in Calls :
          /\ afterClose[p] /\ pc[p] = "returned"
          /\ err[p] = ErrClosed /\ connSends[p] = 0
          /\ result[p] = WrapProduce(ErrClosed)

\* C20: after a publish call has returned ctx.Err() or the timeout error, its
\* send goroutine goes on: it is never disabled (it takes np.mu when free,
\* SendMessage can return, the write to done can complete); when it passes
\* the closed check it invokes SendMessage unless np.closed is true; and the
\* value it writes stays in done: the call's result does not change and no
\* call ever receives it.
C20_TaskOutlivesCaller ==
    /\ [](\A p \in Calls :
            (pc[p] = "returned" /\ result[p] \in {ErrCanceled, ErrTimeout}) =>
                /\ (tpc[p] = "lock" /\ mu = NoHolder) => ENABLED SafeSendLocked(p)
                /\ tpc[p] = "sending" => ENABLED SendMessageReturn(p)
                /\ tpc[p] = "write" => ENABLED GoroutineWrite(p)
                /\ tpc[p] = "done" => done[p] = <<DoneValue(err[p])>>
                /\ recv[p] = None)
    /\ [][\A p \in Calls :
            (pc[p] = "returned" /\ result[p] \in {ErrCanceled, ErrTimeout}) =>
                /\ pc'[p] = "returned" /\ result'[p] = result[p] /\ recv'[p] = None
                /\ (tpc[p] = "lock" /\ tpc'[p] # "lock") =>
                      IF closed
                        THEN /\ err'[p] = ErrClosed /\ connSends' = connSends
                        ELSE /\ tpc'[p] = "sending"
                             /\ connSends'[p] = connSends[p] + 1
                /\ (tpc[p] = "write" /\ tpc'[p] # "write") =>
                      /\ done'[p] = <<DoneValue(err[p])>>
                      /\ \A q \in Calls : result'[q] = result[q] /\ recv'[q] = recv[q]]_vars

C20_Witness ==
    \E p \in Calls :
        /\ pc[p] = "returned" /\ result[p] \in {ErrCanceled, ErrTimeout}
        /\ recv[p] = None
        /\ tpc[p] = "done" /\ err[p] = Nil /\ connSends[p] = 1
        /\ done[p] = <<Nil>>

\* the secret the store's response holds for a key, if any
Holds(k) == response.kind = "kv" /\ k \in DOMAIN response.data

HoldsNonEmpty(k) == Holds(k) /\ response.data[k] # StringValue(<<>>)

\* the value a string denotes for a field of the given kind, if any
Denotes(kind, s) ==
    CASE kind = "string" -> [ok |-> TRUE, v |-> s]
      [] kind = "bool" -> ParseBool(s)
      [] kind = "int" -> Atoi(s)

Loaded == spc \in {"loaded", "constructed", "ctorFailed"}

\* C12 (as claimed): for every key Load resolves, when the store holds a
\* non-empty value for the key the field equals that value (for a boolean or
\* integer field: the value it denotes), otherwise it equals the default.
C12_StoreValueWins ==
    Loaded =>
        \A i \in DOMAIN LoadFields(variant) :
            LET r == LoadFields(variant)[i]
            IN  IF HoldsNonEmpty(r.key)
                  THEN /\ response.data[r.key].t = "string"
                       /\ Denotes(r.kind, response.data[r.key].s).ok
                       /\ cfg[r.field] = Denotes(r.kind, response.data[r.key].s).v
                  ELSE cfg[r.field] = r.def

\* C12 (amended): for every key Load resolves, when the store holds for the
\* key a non-empty string that the field's type accepts (any string for a
\* string field, one of 1 t T TRUE true True 0 f F FALSE false False for a
\* boolean field, an optionally signed decimal number for an integer field)
\* the field equals the value the string denotes; in every other case (no
\* value, an empty string, a value that is not a string, a string the type
\* does not accept) the field equals the compiled-in default for the key.
C12_StoreValueOrDefault ==
    Loaded =>
        \A i \in DOMAIN LoadFields(variant) :
            LET r == LoadFields(variant)[i]
                usable == /\ HoldsNonEmpty(r.key)
                          /\ response.data[r.key].t = "string"
                          /\ Denotes(r.kind, response.data[r.key].s).ok
            IN  /\ usable => cfg[r.field] = Denotes(r.kind, response.data[r.key].s).v
                /\ ~usable => cfg[r.field] = r.def

C12_Witness ==
    /\ Loaded
    /\ Holds("KAFKA_ENABLE_AUTO_COMMIT")
    /\ response.data["KAFKA_ENABLE_AUTO_COMMIT"] = StringValue(<<"F">>)
    /\ cfg.EnableAutoCommit = FALSE
    /\ Holds("KAFKA_BROKERS")
    /\ response.data["KAFKA_BROKERS"] = StringValue(<<"a", ",", " ", "b">>)
    /\ cfg.Brokers = <<"a", ",", " ", "b">>
    /\ cfg.SessionTimeoutMs = 10000

\* C13: for a key the store does not hold, or holds as an empty string, the
\* field equals the value of the environment variable of that key when the
\* environment holds a non-empty one.
C13_EnvBeforeDefault ==
    Loaded =>
        \A i \in DOMAIN LoadFields(variant) :
            LET r == LoadFields(variant)[i]
            IN  (~HoldsNonEmpty(r.key) /\ getEnv(env, r.key) # <<>>) =>
                    cfg[r.field] = Denotes(r.kind, getEnv(env, r.key)).v

\* C14: when VAULT_ADDR, VAULT_TOKEN or VAULT_PATH is empty, Load fails
\* without api.NewClient having been called or the store having been read,
\* and its error is the one of a variable that is empty.
C14_MissingBootVarFails ==
    (spc # "start" /\ \E n \in BootNames : getEnv(env, n) = <<>>) =>
        /\ spc = "loadFailed"
        /\ clientsBuilt = 0
        /\ storeReads = 0
        /\ loadErr \in {ErrNoAddr, ErrNoToken, ErrNoPath}
        /\ loadErr = ErrNoAddr => getEnv(env, "VAULT_ADDR") = <<>>
        /\ loadErr = ErrNoToken => getEnv(env, "VAULT_TOKEN") = <<>>
        /\ loadErr = ErrNoPath => getEnv(env, "VAULT_PATH") = <<>>

\* C15: Load returns a configuration only when the store's response holds a
\* "data" mapping that is not empty.
C15_NoDegradedResolver ==
    Loaded => (response.kind = "kv" /\ response.data # NoMap)

\* C16: NewNotificationProducer on an empty broker string returns "Kafka
\* brokers not configured" without calling sarama.NewSyncProducer; on any
\* other string it calls sarama.NewSyncProducer once, with one address per
\* comma-separated piece of the string, in the order of the pieces, each the
\* piece without its leading and trailing white space; "b1:9092, b2:9092"
\* gives the list "b1:9092", "b2:9092".
C16_BrokerList ==
    spc \in {"constructed", "ctorFailed"} =>
        IF cfg.Brokers = <<>>
          THEN /\ spc = "ctorFailed" /\ ctorErr = ErrNoBrokers
               /\ syncProducers = 0 /\ brokers = NoBrokers
          ELSE LET s == cfg.Brokers
                   commas == {i \in DOMAIN s : s[i] = ","}
                   n == Cardinality(commas) + 1
                   comma(k) == CHOOSE i \in commas :
                                   Cardinality({j \in commas : j < i}) = k - 1
                   lo(k) == IF k = 1 THEN 0 ELSE comma(k - 1)
                   hi(k) == IF k = n THEN Len(s) + 1 ELSE comma(k)
                   piece(k) == SubSeq(s, lo(k) + 1, hi(k) - 1)
                   inner(p) == {i \in DOMAIN p : p[i] \notin WhiteSpace}
                   trimmed(p) ==
                       IF inner(p) = {} THEN <<>>
                       ELSE SubSeq(p, CHOOSE i \in inner(p) : \A j \in inner(p) : i <= j,
                                      CHOOSE i \in inner(p) : \A j \in inner(p) : i >= j)
               IN  /\ syncProducers = 1
                   /\ ctorErr \in {Nil, ErrNoProducer}
                   /\ Len(brokers) = n
                   /\ \A k \in 1..n : brokers[k] = trimmed(piece(k))
                   /\ s = <<"b", "1", ":", "9", "0", "9", "2", ",", " ", "b", "2", ":", "9", "0", "9", "2">> =>
                          brokers = <<<<"b", "1", ":", "9", "0", "9", "2">>,
                                      <<"b", "2", ":", "9", "0", "9", "2">>>>

C16_Witness ==
    /\ spc = "constructed"
    /\ cfg.Brokers = <<"b", "1", ":", "9", "0", "9", "2", ",", " ", "b", "2", ":", "9", "0", "9", "2">>
    /\ Len(brokers) = 2
    /\ brokers[2] = <<"b", "2", ":", "9", "0", "9", "2">>
    /\ syncProducers = 1

C21_EveryFailureReturned ==
    \A p \in Calls :
        /\ pc[p] # "idle" => tpc[p] # "none"
        /\ connSends[p] <= 1
        /\ (pc[p] = "returned" /\ tpc[p] \in {"write", "done"} /\ err[p] # Nil)
              => result[p] = DoneValue(err[p])

\* C21 (amended): a publish call has a send goroutine exactly when it got past
\* envelope construction and serialization, and the goroutine is started
\* once; that goroutine invokes SendMessage at most once, and not at all when
\* it found the producer closed, so a failed send is never tried again; a
\* call whose send failed never returns nil: it returns that failure when it
\* received from done, and the cancellation or timeout error when it had
\* stopped waiting, in which case the failure stays in done unread.
C21_OneTaskOneSend ==
    /\ [](\A p \in Calls :
            /\ (tpc[p] = "none") <=>
                  (pc[p] = "idle" \/ result[p] \in {WrapCreate(ErrMarshal), WrapMarshal(ErrTime)})
            /\ connSends[p] <= 1
            /\ (connSends[p] = 1) <=>
                  (tpc[p] = "sending" \/ (tpc[p] \in {"write", "done"} /\ err[p] # ErrClosed))
            /\ (pc[p] = "returned" /\ tpc[p] \in {"write", "done"} /\ err[p] # Nil) =>
                  /\ result[p] \in {DoneValue(err[p]), ErrCanceled, ErrTimeout}
                  /\ result[p] # Nil
                  /\ recv[p] # None => result[p] = DoneValue(err[p])
                  /\ recv[p] = None => done[p] \in {<<>>, <<DoneValue(err[p])>>})
    /\ [][\A p \in Calls :
            /\ (tpc'[p] = "lock" /\ tpc[p] # "lock") => (tpc[p] = "none" /\ pc[p] = "idle")
            /\ connSends'[p] # connSends[p] => (connSends[p] = 0 /\ tpc[p] = "lock" /\ ~closed)]_vars

C21_Witness ==
    \E p \in Calls :
        /\ pc[p] = "returned" /\ result[p] = ErrTimeout /\ recv[p] = None
        /\ tpc[p] = "done" /\ err[p] = ErrBroker /\ connSends[p] = 1
        /\ done[p] = <<WrapProduce(ErrBroker)>>

\* C22: what a publish call and its send goroutine have done is always an
\* initial part of: envelope construction, serialization, header attachment,
\* go statement, np.mu.Lock(), SendMessage. A call whose payload does not
\* marshal has returned that error, wrapped, after the construction step
\* alone, and a call whose envelope does not marshal has returned that error,
\* wrapped, after the serialization step: neither has built a Kafka message,
\* started a goroutine, taken np.mu or handed anything to the connection.
C22_StepsInOrder ==
    /\ Len(steps) <= Len(StepOrder)
    /\ steps = SubSeq(StepOrder, 1, Len(steps))
    /\ (handed # <<>>) <=> (steps = StepOrder)
    /\ (ppc \notin {"idle", "called"} /\ ~MarshalPayload(call.payload).ok) =>
          /\ ppc = "returned" /\ pubErr = WrapCreate(ErrMarshal)
          /\ steps = <<"envelope">>
          /\ handed = <<>> /\ kafkaMsg = <<>> /\ messageBytes = <<>> /\ mu = NoHolder
    /\ (ppc \notin {"idle", "called", "built"} /\ MarshalPayload(call.payload).ok
          /\ ~TimeMarshalOK(notificationMsg.CreatedAt)) =>
          /\ ppc = "returned" /\ pubErr = WrapMarshal(ErrTime)
          /\ steps = <<"envelope", "serialize">>
          /\ handed = <<>> /\ kafkaMsg = <<>> /\ messageBytes = <<>> /\ mu = NoHolder
    /\ (ppc = "returned" /\ pubErr \notin {WrapCreate(ErrMarshal), WrapMarshal(ErrTime)}) =>
          /\ steps = StepOrder
          /\ handed = <<kafkaMsg>> /\ kafkaMsg.Value = messageBytes
          /\ messageBytes = MarshalMessage(notificationMsg)

C22_Witness ==
    /\ ppc = "returned"
    /\ call.op = "PublishSMSMessage"
    /\ \E k \in DOMAIN call.payload.Metadata.m : call.payload.Metadata.m[k] = GoFunc
    /\ pubErr = WrapCreate(ErrMarshal)
    /\ steps = <<"envelope">>

\* C23: every message handed to np.producer.SendMessage has the topic given
\* to the publish call, the serialized envelope as its value, and exactly the
\* headers message_id, type and timestamp, in this order, holding the
\* envelope's ID, the envelope's Type, which is the kind tag given to the
\* call, and the envelope's CreatedAt in RFC3339 form: the reading down to
\* the second, without the fraction that the serialized envelope carries.
C23_HeadersOfMessage ==
    \A i \in DOMAIN handed :
        LET m == handed[i]
            ts == m.Headers[3].Value
            wall == notificationMsg.CreatedAt.wall
        IN  /\ m.Topic = call.topic
            /\ m.Value = MarshalMessage(notificationMsg)
            /\ Len(m.Headers) = 3
            /\ m.Headers[1].Key = "message_id" /\ m.Headers[1].Value = notificationMsg.ID
            /\ m.Headers[2].Key = "type" /\ m.Headers[2].Value = notificationMsg.Type
            /\ notificationMsg.Type = call.msgType
            /\ m.Value.val.id.val = m.Headers[1].Value
            /\ m.Value.val.type.val = m.Headers[2].Value
            /\ m.Headers[3].Key = "timestamp"
            /\ \A j \in DOMAIN ts : ts[j] # "."
            /\ ts = SubSeq(wall, 1, Len(ts))
            /\ Len(wall) > Len(ts) => wall[Len(ts) + 1] = "."

C23_Witness ==
    /\ Len(handed) = 1
    /\ call.op = "PublishMessage" /\ call.msgType = <<"f", "e", "e", "d", "b", "a", "c", "k">>
    /\ handed[1].Topic = <<"t">>
    /\ handed[1].Headers[1].Value = <<"f", "e", "e", "d", "b", "a", "c", "k", "-", "1", "7">>
    /\ handed[1].Headers[3].Value = <<"2", "0", "2", "5">>
    /\ notificationMsg.CreatedAt.wall = <<"2", "0", "2", "5", ".", "5">>

\* C24 (as stated): for each of the five kinds the build has a per-kind
\* publish operation with that kind's tag, np.config has the field that
\* operation reads its topic from, and a message published through it has
\* that tag as its type header and the value of that field as its topic.
C24_TopicPerKind ==
    /\ \A k \in Kinds :
          \E o \in OpsOf(variant) : o.msgType = k /\ o.field \in DOMAIN services.Producer.config
    /\ \A i \in DOMAIN handed :
          call.op # "PublishMessage" =>
              \E o \in PublishOps :
                  /\ o.op = call.op
                  /\ handed[i].Headers[2].Value = o.msgType
                  /\ handed[i].Topic = services.Producer.config[o.field]

\* C25: a Load reads the store at most once and builds at most one client;
\* a Load that returned a configuration read it exactly once, inside
\* NewVaultClient, and the cache is what that read returned (a Load that
\* failed before the read, for want of a client, read nothing). Only that
\* step writes the cache or asks the store: no GetSecret call changes either,
\* every GetSecret call returns what the cache holds, two calls for the same
\* key return the same value, and the configuration is the one computed from
\* that cache.
C25_ReadOnceWriteOnce ==
    /\ [](/\ storeReads <= 1 /\ clientsBuilt <= 1
          /\ spc = "loaded" =>
                /\ storeReads = 1 /\ clientsBuilt = 1
                /\ response.kind \in {"kv", "flat"}
                /\ secretData = (IF response.kind = "kv" THEN response.data ELSE NoMap)
                /\ cfg = LoadConfig(variant, secretData)
          /\ spc = "loadFailed" => looked = {} /\ secretData = NoMap
          /\ \A a \in looked : a.value = GetSecret(secretData, a.key)
          /\ \A a, b \in looked : a.key = b.key => a.value = b.value)
    /\ [][(secretData' # secretData \/ storeReads' # storeReads \/ response' # response)
            => (spc = "start" /\ storeReads = 0 /\ looked = {})]_vars

C25_Witness ==
    /\ spc = "loaded" /\ storeReads = 1
    /\ \E a, b \in looked :
          /\ a.key = "KAFKA_SMS_TOPIC" /\ a.value = <<"a", ",", " ", "b">>
          /\ b.key = "NO_SUCH_KEY" /\ b.value = <<>>
    /\ cfg.SASLEnabled = FALSE

\* C26: once the store has answered the read with a "data" mapping, Load
\* returns a configuration and no error whatever the mapping holds; and each
\* field whose key the mapping does not hold, or holds as a value that is not
\* a string, as the empty string, or, for a boolean or integer field, as a
\* string that strconv.ParseBool or strconv.Atoi rejects, has the compiled-in
\* default of that field.
C26_MissIsNotAnError ==
    (spc # "start" /\ response.kind = "kv") =>
        /\ Loaded
        /\ loadErr = Nil
        /\ DOMAIN cfg = FieldNames(variant)
        /\ \A i \in DOMAIN LoadFields(variant) :
              LET r == LoadFields(variant)[i]
                  miss == \/ ~Holds(r.key)
                          \/ response.data[r.key].t # "string"
                          \/ response.data[r.key].s = <<>>
                          \/ /\ r.kind \in {"bool", "int"}
                             /\ ~Denotes(r.kind, response.data[r.key].s).ok
              IN  miss => cfg[r.field] = r.def

C26_Witness ==
    /\ spc = "ctorFailed" /\ loadErr = Nil /\ ctorErr = ErrNoBrokers
    /\ Holds("KAFKA_SESSION_TIMEOUT_MS")
    /\ response.data["KAFKA_SESSION_TIMEOUT_MS"] = StringValue(<<"1", "x">>)
    /\ cfg.SessionTimeoutMs = 10000
    /\ cfg.SASLEnabled = FALSE
    /\ cfg.Brokers = <<>>

\* C27: over all publish calls on one producer at most one SendMessage is in
\* progress at any time; while the send of one call is in progress the send
\* goroutine of another call that has reached np.mu.Lock() cannot pass it and
\* has not invoked SendMessage, and it invokes SendMessage only in a step
\* taken when no send is in progress. (Which goroutine gets np.mu first is
\* up to the scheduler; the publish call of the waiting goroutine goes on
\* with its select meanwhile.)
C27_OneSendAtATime ==
    /\ [](Cardinality({p \in Calls : tpc[p] = "sending"}) <= 1)
    /\ [](\A p, q \in Calls :
            (p # q /\ tpc[q] = "sending" /\ tpc[p] = "lock") =>
                (~ENABLED SafeSendLocked(p) /\ connSends[p] = 0))
    /\ [][\A p \in Calls :
            (tpc[p] = "lock" /\ tpc'[p] = "sending") =>
                /\ \A q \in Calls : tpc[q] # "sending"
                /\ \A q \in Calls \ {p} : tpc'[q] = tpc[q]]_vars

\* the send of q is in progress, the goroutine of p still waits for np.mu
\* and has sent nothing, and the publish call of p has already returned the
\* timeout or the cancellation error
C27_Witness ==
    \E p, q \in Calls :
        /\ p # q
        /\ tpc[q] = "sending" /\ mu = SendTask(q)
        /\ tpc[p] = "lock" /\ connSends[p] = 0
        /\ pc[p] = "returned"
        /\ result[p] \in {ErrTimeout, ErrCanceled}

\* C28: provided every SendMessage and every np.producer.Close() that is
\* invoked returns (from some point on none is in progress any more), the
\* producer comes to rest whatever the interleaving of publish and Close
\* calls was: from some point on every send goroutine that was started has
\* ended, every Close call that was issued has returned, and nobody holds
\* np.mu.
C28_NoDeadlock ==
    <>[](/\ \A p \in Calls : tpc[p] # "sending"
         /\ \A k \in Closers : cpc[k] # "closing")
    => <>[](/\ \A p \in Calls : tpc[p] \in {"none", "done"}
            /\ \A c \in Closers : cpc[c] \in {"idle", "returned"}
            /\ mu = NoHolder)

\* a publish call whose send reached the connection and a Close call that
\* released the connection have both ended, and np.mu is free
C28_Witness ==
    \E p \in Calls, c \in Closers :
        /\ p # c
        /\ tpc[p] = "done" /\ connSends[p] = 1 /\ writes[p] = 1
        /\ cpc[c] = "returned" /\ touched[c]
        /\ \A q \in Calls : tpc[q] \in {"none", "done"}
        /\ mu = NoHolder

\* C29: InitializeNotificationServices calls config.Load first and the
\* producer's constructor only with the configuration Load returned, and it
\* returns one of two things: an error (that of Load or that of the
\* constructor) and no services, or no error and services whose Producer is
\* not closed and was built from the Kafka part of the loaded configuration
\* and whose Config is that configuration. When Load fails the constructor
\* is not called and no connection is attempted.
C29_AllOrNothing ==
    /\ (DOMAIN services # {}) <=> (spc = "constructed")
    /\ (initErr = Nil) <=> (spc = "constructed")
    /\ (initErr = None) <=> (spc \in {"start", "loaded"})
    /\ spc = "constructed" =>
          /\ loadErr = Nil /\ ctorErr = Nil
          /\ cfg = LoadConfig(variant, secretData)
          /\ services.Config = cfg
          /\ services.Producer.closed = FALSE
          /\ services.Producer.config = Kafka(cfg)
          /\ syncProducers = 1
    /\ spc = "loadFailed" =>
          /\ initErr = loadErr
          /\ cfg = NoConfig
          /\ ctorErr = None /\ syncProducers = 0 /\ brokers = NoBrokers
    /\ spc = "ctorFailed" => (initErr = ctorErr /\ loadErr = Nil)
    /\ loadErr \notin {None, Nil} => spc = "loadFailed"
    /\ ctorErr # None => loadErr = Nil

\* both outcomes' interesting case: services returned from a store that set
\* a topic (the configuration in the services is the resolved one, not the
\* defaults)
C29_Witness ==
    /\ spc = "constructed" /\ initErr = Nil
    /\ Holds("KAFKA_SMS_TOPIC")
    /\ services.Config = LoadConfig(variant, secretData)
    /\ services.Config # LoadConfig(variant, NoMap)
    /\ services.Producer.closed = FALSE
    /\ services.Producer.config.Brokers # <<>>

====
